---- MODULE Spec2Model ----
(***************************************************************************)
(* Model of the harness-onboarder concurrent onboarding pipeline:          *)
(*   - internal/cmd/root.go      mode runners (scheduler), the strategies  *)
(*   - internal/errors/types.go  CategorizeError, ErrorSummary             *)
(*   - internal/state/manager.go the state Manager (idempotency ledger)    *)
(*                                                                         *)
(* Text is a sequence of fragments (strings); strings.ToLower and          *)
(* strings.Contains are computed per fragment through tables.              *)
(* Time is an integer number of hours.                                     *)
(***************************************************************************)
EXTENDS Integers, Sequences, FiniteSets, TLC

VARIABLES
    mode,          \* config.Runtime.Mode
    concurrency,   \* config.Runtime.Concurrency
    nRepos,        \* len(repos) of the filtered repository list
    mainPc,        \* position of the mode runner / main goroutine
    launched,      \* goroutines started by the for loop of the mode runner
    taskPc,        \* position of each task goroutine
    taskResult,    \* the local variable result of each task goroutine
    invocations,   \* number of times the Strategy was entered per repository
    semaphore,     \* number of tokens in the semaphore channel
    results,       \* buffer of the results channel
    summary,       \* the ErrorSummary of the mode runner
    runErr,        \* the error returned by the mode runner
    exitStatus,    \* process exit status set by main
    ledger,        \* Manager.state.ProcessedRepos (in memory)
    lastRun,       \* Manager.state.LastRun (in memory)
    disk,          \* content of the state file
    clock,         \* time.Now(), in hours
    lastCall,      \* the last Manager call and what it returned
    mutex,         \* Manager.mutex: the writer and the readers holding it
    callers        \* the Manager call each concurrent caller makes, and its position

vars == <<mode, concurrency, nRepos, mainPc, launched, taskPc, taskResult,
          invocations, semaphore, results, summary, runErr, exitStatus,
          ledger, lastRun, disk, clock, lastCall, mutex, callers>>

pipelineVars == <<mode, concurrency, nRepos, mainPc, launched, taskPc,
                  taskResult, invocations, semaphore, results, summary,
                  runErr, exitStatus>>

storeVars == <<ledger, lastRun, disk, clock, lastCall>>

lockVars == <<mutex, callers>>

----------------------------------------------------------------------------
(* Bounds *)

MaxRepos == 2

MaxConcurrency == 2

MaxResults == 3

----------------------------------------------------------------------------
(* Repository identities *)

RepoNames == <<"org/a", "org/b", "org/c", "org/d", "org/e">>

RepoName(i) == RepoNames[i]

Modes == {"yaml", "api", "register"}

----------------------------------------------------------------------------
(* internal/errors/types.go: text helpers *)

\* strings.ToLower on one fragment
ToLower(f) ==
    CASE f = "HTTP 404" -> "http 404"
      [] f = "HTTP 403" -> "http 403"
      [] f = "HTTP 401" -> "http 401"
      [] f = "HTTP 429" -> "http 429"
      [] f = "HTTP 500" -> "http 500"
      [] f = "HTTP 422" -> "http 422"
      [] f = "Not Found" -> "not found"
      [] f = "Forbidden" -> "forbidden"
      [] f = "Unauthorized" -> "unauthorized"
      [] f = "Too Many Requests" -> "too many requests"
      [] f = "API rate limit exceeded" -> "api rate limit exceeded"
      [] f = "DUPLICATE_FILE_IMPORT" -> "duplicate_file_import"
      [] f = "Duplicate key" -> "duplicate key"
      [] f = "Entity Already Exists" -> "entity already exists"
      [] f = "A pull request already exists" -> "a pull request already exists"
      [] f = "Internal Server Error" -> "internal server error"
      [] OTHER -> f

\* the patterns of CategorizeError that occur in one lower-case fragment
PatternsIn(f) ==
    CASE f = "http 404" -> {"404"}
      [] f = "http 403" -> {"403"}
      [] f = "http 401" -> {"401"}
      [] f = "http 429" -> {"429"}
      [] f = "not found" -> {"not found"}
      [] f = "forbidden" -> {"forbidden"}
      [] f = "unauthorized" -> {"unauthorized"}
      [] f = "api rate limit exceeded" -> {"rate limit"}
      [] f = "duplicate_file_import" -> {"duplicate_file_import", "duplicate"}
      [] f = "has already been imported" -> {"already been imported", "already"}
      [] f = "duplicate key" -> {"duplicate"}
      [] f = "entity already exists" -> {"already exists", "already"}
      [] f = "reference already exists" -> {"already exists", "already"}
      [] f = "a pull request already exists" ->
             {"pull request", "already exists", "already"}
      [] f = "no catalog-info.yaml file found" -> {"catalog-info.yaml"}
      [] f = "catalog-info.yaml not found" -> {"catalog-info.yaml", "not found"}
      [] OTHER -> {}

\* strings.ToLower(err.Error())
LowerText(msg) == [i \in 1..Len(msg) |-> ToLower(msg[i])]

\* strings.Contains(errMsg, pat)
Contains(msg, pat) == \E i \in 1..Len(msg) : pat \in PatternsIn(msg[i])

----------------------------------------------------------------------------
(* internal/errors/types.go: ProcessingError *)

NoError == [kind |-> "nil"]

\* an error value that is not a *ProcessingError
RawError(msg) == [kind |-> "raw", Message |-> msg]

IsProcessingError(e) == e.kind = "processing"

\* err.Error() of an error value
ErrorText(e) ==
    IF e.kind = "raw" THEN e.Message
    ELSE IF e.Repository # ""
         THEN <<"[", e.Category, ":", e.Type, "] ">> \o e.Message
                  \o <<" (repo: ", e.Repository, ")">>
         ELSE <<"[", e.Category, ":", e.Type, "] ">> \o e.Message

ProcessingError(cat, typ, msg, repo, cause, rec, uf) ==
    [kind |-> "processing", Category |-> cat, Type |-> typ, Message |-> msg,
     Repository |-> repo, Cause |-> cause, Recoverable |-> rec,
     UserFriendly |-> uf]

\* the cause kept in a ProcessingError: the text of the wrapped error
CauseOf(err) == IF err.kind = "nil" THEN <<>> ELSE ErrorText(err)

NewRepositoryNotFoundError(repo, cause) ==
    ProcessingError("REPOSITORY", "REPOSITORY_NOT_FOUND",
        <<"repository not found or inaccessible">>, repo, CauseOf(cause), FALSE,
        <<"Repository '", repo, "' was not found or you don't have access to it.">>)

NewEntityExistsError(repo, identifier, cause) ==
    ProcessingError("ENTITY", "ENTITY_EXISTS",
        <<"entity with identifier '", identifier, "' already exists">>, repo,
        CauseOf(cause), FALSE,
        <<"Component '", identifier, "' already exists in Harness IDP.">>)

NewEntityAlreadyRegisteredError(repo, cause) ==
    ProcessingError("ENTITY", "ENTITY_ALREADY_REGISTERED",
        <<"entity already registered">>, repo, CauseOf(cause), FALSE,
        <<"Repository '", repo, "' has already been imported into Harness IDP.">>)

NewCatalogFileNotFoundError(repo, cause) ==
    ProcessingError("REPOSITORY", "CATALOG_FILE_NOT_FOUND",
        <<"catalog-info.yaml file not found">>, repo, CauseOf(cause), FALSE,
        <<"Repository '", repo, "' doesn't have a catalog-info.yaml file.">>)

NewPRExistsError(repo, prNumber, cause) ==
    ProcessingError("PULL_REQUEST", "PR_EXISTS",
        <<"pull request already exists (PR #", prNumber, ")">>, repo,
        CauseOf(cause), FALSE,
        <<"Repository '", repo, "' already has an open pull request (PR #",
          prNumber, ").">>)

NewUnauthorizedError(message, cause) ==
    ProcessingError("AUTHENTICATION", "UNAUTHORIZED", message, "",
        CauseOf(cause), FALSE,
        <<"Authentication failed. Please check your API keys and permissions.">>)

\* NewRateLimitError that leaves Recoverable at its zero value
NewRateLimitErrorNotRecoverable(cause) ==
    ProcessingError("NETWORK", "RATE_LIMIT", <<"rate limit exceeded">>, "",
        CauseOf(cause), FALSE,
        <<"API rate limit exceeded. The tool will retry automatically after a delay.">>)

NewRateLimitError(cause) ==
    ProcessingError("NETWORK", "RATE_LIMIT", <<"rate limit exceeded">>, "",
        CauseOf(cause), TRUE,
        <<"API rate limit exceeded. The tool will retry automatically after a delay.">>)

\* CategorizeError with the already-exists rule ahead of the already-imported rule
CategorizeErrorGenericFirst(err, repo) ==
    IF IsProcessingError(err)
    THEN IF err.Repository = "" THEN [err EXCEPT !.Repository = repo] ELSE err
    ELSE LET errMsg == LowerText(ErrorText(err)) IN
         IF Contains(errMsg, "404") /\ Contains(errMsg, "not found")
         THEN NewRepositoryNotFoundError(repo, err)
         ELSE IF Contains(errMsg, "403") /\ Contains(errMsg, "forbidden")
         THEN ProcessingError("AUTHENTICATION", "FORBIDDEN",
                  <<"access forbidden">>, repo, CauseOf(err), FALSE,
                  <<"Access to repository '", repo, "' is forbidden.">>)
         ELSE IF Contains(errMsg, "401") /\ Contains(errMsg, "unauthorized")
         THEN NewUnauthorizedError(<<"GitHub authentication failed">>, err)
         ELSE IF Contains(errMsg, "429") \/ Contains(errMsg, "rate limit")
         THEN NewRateLimitError(err)
         ELSE IF Contains(errMsg, "already exists")
                 \/ Contains(errMsg, "duplicate")
         THEN NewEntityExistsError(repo, "unknown", err)
         ELSE IF Contains(errMsg, "duplicate_file_import")
                 \/ Contains(errMsg, "already been imported")
         THEN NewEntityAlreadyRegisteredError(repo, err)
         ELSE IF Contains(errMsg, "catalog-info.yaml")
                 /\ Contains(errMsg, "not found")
         THEN NewCatalogFileNotFoundError(repo, err)
         ELSE IF Contains(errMsg, "pull request") /\ Contains(errMsg, "already")
         THEN NewPRExistsError(repo, "0", err)
         ELSE ProcessingError("UNKNOWN", "UNKNOWN", ErrorText(err), repo,
                  CauseOf(err), FALSE,
                  <<"An unexpected error occurred while processing '", repo,
                    "': ">> \o ErrorText(err))

\* CategorizeError(err, repo); err is not nil
CategorizeError(err, repo) ==
    IF IsProcessingError(err)
    THEN IF err.Repository = "" THEN [err EXCEPT !.Repository = repo] ELSE err
    ELSE LET errMsg == LowerText(ErrorText(err)) IN
         IF Contains(errMsg, "404") /\ Contains(errMsg, "not found")
         THEN NewRepositoryNotFoundError(repo, err)
         ELSE IF Contains(errMsg, "403") /\ Contains(errMsg, "forbidden")
         THEN ProcessingError("AUTHENTICATION", "FORBIDDEN",
                  <<"access forbidden">>, repo, CauseOf(err), FALSE,
                  <<"Access to repository '", repo, "' is forbidden.">>)
         ELSE IF Contains(errMsg, "401") /\ Contains(errMsg, "unauthorized")
         THEN NewUnauthorizedError(<<"GitHub authentication failed">>, err)
         ELSE IF Contains(errMsg, "429") \/ Contains(errMsg, "rate limit")
         THEN NewRateLimitError(err)
         ELSE IF Contains(errMsg, "duplicate_file_import")
                 \/ Contains(errMsg, "already been imported")
         THEN NewEntityAlreadyRegisteredError(repo, err)
         ELSE IF Contains(errMsg, "already exists")
                 \/ Contains(errMsg, "duplicate")
         THEN NewEntityExistsError(repo, "unknown", err)
         ELSE IF Contains(errMsg, "catalog-info.yaml")
                 /\ Contains(errMsg, "not found")
         THEN NewCatalogFileNotFoundError(repo, err)
         ELSE IF Contains(errMsg, "pull request") /\ Contains(errMsg, "already")
         THEN NewPRExistsError(repo, "0", err)
         ELSE ProcessingError("UNKNOWN", "UNKNOWN", ErrorText(err), repo,
                  CauseOf(err), FALSE,
                  <<"An unexpected error occurred while processing '", repo,
                    "': ">> \o ErrorText(err))

----------------------------------------------------------------------------
(* internal/errors/types.go: ProcessingResult and ErrorSummary *)

ProcessingResult(repo, success, err, message, skipped, action) ==
    [Repository |-> repo, Success |-> success, Error |-> err,
     Message |-> message, Skipped |-> skipped, Action |-> action]

NoResult == [Repository |-> "", Success |-> FALSE, Error |-> NoError,
             Message |-> "", Skipped |-> FALSE, Action |-> ""]

EmptyMap == [k \in {} |-> 0]

NewErrorSummary ==
    [Total |-> 0, ByCategory |-> EmptyMap, ByType |-> EmptyMap,
     Recoverable |-> 0, Results |-> <<>>]

\* m[k]++ on a Go map of counters
Increment(m, k) ==
    [x \in DOMAIN m \cup {k} |-> IF x = k
                                 THEN (IF k \in DOMAIN m THEN m[k] ELSE 0) + 1
                                 ELSE m[x]]

\* AddResult with Total++ moved out of the error branch
AddResultCountsAll(s, result) ==
    IF result.Error # NoError
    THEN [Total |-> s.Total + 1,
          ByCategory |-> Increment(s.ByCategory, result.Error.Category),
          ByType |-> Increment(s.ByType, result.Error.Type),
          Recoverable |-> IF result.Error.Recoverable
                          THEN s.Recoverable + 1 ELSE s.Recoverable,
          Results |-> Append(s.Results, result)]
    ELSE [s EXCEPT !.Results = Append(s.Results, result), !.Total = s.Total + 1]

\* AddResult that assigns the per-type map instead of incrementing it
AddResultLastType(s, result) ==
    IF result.Error # NoError
    THEN [Total |-> s.Total + 1,
          ByCategory |-> Increment(s.ByCategory, result.Error.Category),
          ByType |-> Increment(EmptyMap, result.Error.Type),
          Recoverable |-> IF result.Error.Recoverable
                          THEN s.Recoverable + 1 ELSE s.Recoverable,
          Results |-> Append(s.Results, result)]
    ELSE [s EXCEPT !.Results = Append(s.Results, result)]

AddResult(s, result) ==
    IF result.Error # NoError
    THEN [Total |-> s.Total + 1,
          ByCategory |-> Increment(s.ByCategory, result.Error.Category),
          ByType |-> Increment(s.ByType, result.Error.Type),
          Recoverable |-> IF result.Error.Recoverable
                          THEN s.Recoverable + 1 ELSE s.Recoverable,
          Results |-> Append(s.Results, result)]
    ELSE [s EXCEPT !.Results = Append(s.Results, result)]

----------------------------------------------------------------------------
(* internal/cmd/root.go: what the collaborators of a Strategy answer *)

HTTP429 == RawError(<<"HTTP 429", ": ", "Too Many Requests">>)

HTTP500 == RawError(<<"HTTP 500", ": ", "Internal Server Error">>)

\* fmt.Errorf(prefix + ": %w", err)
Wrap(prefix, err) == RawError(<<prefix>> \o ErrorText(err))

\* githubClient.CheckForExistingOnboardingPR: (pr, err)
PRCheckOutcomes ==
    { [pr |-> FALSE, err |-> NoError],
      [pr |-> TRUE, err |-> NoError],
      [pr |-> FALSE, err |-> Wrap("failed to list pull requests: ", HTTP500)] }

\* githubClient.GetCatalogInfo: (content, err)
CatalogInfoOutcomes ==
    { [content |-> "yaml", err |-> NoError],
      [content |-> "", err |-> NoError],
      [content |-> "", err |-> RawError(<<"no catalog-info.yaml file found">>)],
      [content |-> "", err |-> Wrap("error checking catalog-info.yaml: ", HTTP500)] }

\* harnessClient.GetComponent: (component, err)
GetComponentOutcomes ==
    { [component |-> TRUE, err |-> NoError],
      [component |-> FALSE, err |-> NoError],
      [component |-> FALSE,
       err |-> Wrap("authentication/authorization error: ",
                    RawError(<<"HTTP 401", ": ", "Unauthorized">>))] }

\* githubClient.CreatePR: err
CreatePROutcomes(repo) ==
    { NoError,
      NewPRExistsError(repo, "0", RawError(<<"reference already exists">>)),
      Wrap("failed to create PR: ", HTTP429),
      Wrap("failed to create file: ", HTTP500) }

\* harnessClient.CreateComponent: err
CreateComponentOutcomes ==
    { NoError,
      NewEntityExistsError("", "repo", RawError(<<"HTTP 409">>)),
      Wrap("failed to create component: ", HTTP429),
      Wrap("failed to create component: ", HTTP500) }

\* getCatalogInfoPathAndContent: (path, content, err)
CatalogPathOutcomes ==
    { [path |-> "catalog-info.yaml", content |-> "yaml", err |-> NoError],
      [path |-> "", content |-> "",
       err |-> RawError(<<"no catalog-info.yaml file found">>)],
      [path |-> "", content |-> "",
       err |-> Wrap("error checking catalog-info.yaml: ", HTTP500)] }

\* harnessClient.RegisterCatalogLocation: err
RegisterOutcomes(repo) ==
    { NoError,
      NewEntityAlreadyRegisteredError(repo,
          RawError(<<"HTTP 400", ": ", "DUPLICATE_FILE_IMPORT">>)),
      Wrap("failed to import entity: ", HTTP429),
      Wrap("failed to import entity: ", HTTP500) }

----------------------------------------------------------------------------
(* internal/cmd/root.go: the three Strategies *)

processRepositoryYAMLWithResult(repo, prCheck, catalog, component, marshalOk, createErr) ==
    IF prCheck.pr
    THEN ProcessingResult(repo, TRUE, NoError, "Open PR already exists",
                          TRUE, "skipped")
    ELSE IF catalog.err = NoError /\ catalog.content # ""
    THEN IF component.err = NoError /\ component.component
         THEN ProcessingResult(repo, TRUE, NoError,
                  "Already onboarded (file exists in repo, component exists in IDP)",
                  TRUE, "skipped")
         ELSE ProcessingResult(repo, TRUE, NoError,
                  "Catalog file exists, but component not in IDP (use register mode)",
                  TRUE, "skipped")
    ELSE IF ~marshalOk
    THEN ProcessingResult(repo, FALSE,
             ProcessingError("VALIDATION", "CATALOG_FILE_INVALID",
                 <<"failed to marshal catalog-info.yaml: ">>, repo,
                 <<"yaml: marshal error">>, FALSE,
                 <<"Failed to generate catalog-info.yaml for '", repo, "'.">>),
             "YAML generation failed", FALSE, "failed")
    ELSE IF createErr # NoError
    THEN LET procErr == CategorizeError(createErr, repo) IN
         IF procErr.Type = "PR_EXISTS"
         THEN ProcessingResult(repo, FALSE, procErr, "PR already exists",
                               TRUE, "skipped")
         ELSE ProcessingResult(repo, FALSE, procErr, "PR creation failed",
                               FALSE, "failed")
    ELSE ProcessingResult(repo, TRUE, NoError, "PR created successfully",
                          FALSE, "created")

\* the api Strategy reporting an entity that already exists as a success
processRepositoryAPIExistsSucceeds(repo, createErr) ==
    IF createErr # NoError
    THEN LET procErr == CategorizeError(createErr, repo) IN
         IF procErr.Type = "ENTITY_EXISTS"
         THEN ProcessingResult(repo, TRUE, procErr, "Component already exists",
                               TRUE, "skipped")
         ELSE ProcessingResult(repo, FALSE, procErr,
                               "Component creation failed", FALSE, "failed")
    ELSE ProcessingResult(repo, TRUE, NoError,
                          "Component created successfully", FALSE, "created")

processRepositoryAPIWithResult(repo, createErr) ==
    IF createErr # NoError
    THEN LET procErr == CategorizeError(createErr, repo) IN
         IF procErr.Type = "ENTITY_EXISTS"
         THEN ProcessingResult(repo, FALSE, procErr, "Component already exists",
                               TRUE, "skipped")
         ELSE ProcessingResult(repo, FALSE, procErr,
                               "Component creation failed", FALSE, "failed")
    ELSE ProcessingResult(repo, TRUE, NoError,
                          "Component created successfully", FALSE, "created")

\* the register Strategy reporting a failed lookup as a failure
processRepositoryRegisterMissingFails(repo, catalog, registerErr) ==
    IF catalog.err # NoError
    THEN ProcessingResult(repo, FALSE, NewCatalogFileNotFoundError(repo, catalog.err),
                          "No catalog-info.yaml found", FALSE, "failed")
    ELSE IF registerErr # NoError
    THEN LET procErr == CategorizeError(registerErr, repo) IN
         IF procErr.Type = "ENTITY_ALREADY_REGISTERED"
         THEN ProcessingResult(repo, FALSE, procErr,
                               "Entity already registered", TRUE, "skipped")
         ELSE ProcessingResult(repo, FALSE, procErr, "Registration failed",
                               FALSE, "failed")
    ELSE ProcessingResult(repo, TRUE, NoError,
                          "Entity registered successfully", FALSE, "registered")

\* the register Strategy comparing the type with ENTITY_EXISTS
processRepositoryRegisterExistsOnly(repo, catalog, registerErr) ==
    IF catalog.err # NoError
    THEN ProcessingResult(repo, TRUE, NoError, "No catalog-info.yaml found",
                          TRUE, "skipped")
    ELSE IF registerErr # NoError
    THEN LET procErr == CategorizeError(registerErr, repo) IN
         IF procErr.Type = "ENTITY_EXISTS"
         THEN ProcessingResult(repo, FALSE, procErr,
                               "Entity already registered", TRUE, "skipped")
         ELSE ProcessingResult(repo, FALSE, procErr, "Registration failed",
                               FALSE, "failed")
    ELSE ProcessingResult(repo, TRUE, NoError,
                          "Entity registered successfully", FALSE, "registered")

processRepositoryRegisterWithResult(repo, catalog, registerErr) ==
    IF catalog.err # NoError
    THEN ProcessingResult(repo, TRUE, NoError, "No catalog-info.yaml found",
                          TRUE, "skipped")
    ELSE IF registerErr # NoError
    THEN LET procErr == CategorizeError(registerErr, repo) IN
         IF procErr.Type = "ENTITY_ALREADY_REGISTERED"
         THEN ProcessingResult(repo, FALSE, procErr,
                               "Entity already registered", TRUE, "skipped")
         ELSE ProcessingResult(repo, FALSE, procErr, "Registration failed",
                               FALSE, "failed")
    ELSE ProcessingResult(repo, TRUE, NoError,
                          "Entity registered successfully", FALSE, "registered")

\* the results the active Strategy can return for a repository
StrategyResults(m, repo) ==
    IF m = "yaml"
    THEN { processRepositoryYAMLWithResult(repo, p, c, g, ok, e) :
             p \in PRCheckOutcomes, c \in CatalogInfoOutcomes,
             g \in GetComponentOutcomes, ok \in BOOLEAN,
             e \in CreatePROutcomes(repo) }
    ELSE IF m = "api"
    THEN { processRepositoryAPIWithResult(repo, e) :
             e \in CreateComponentOutcomes }
    ELSE { processRepositoryRegisterWithResult(repo, c, e) :
             c \in CatalogPathOutcomes, e \in RegisterOutcomes(repo) }

\* StrategyResults for every mode and task, computed once
StrategyResultsOf ==
    [m \in Modes, i \in 1..Len(RepoNames) |-> StrategyResults(m, RepoName(i))]

----------------------------------------------------------------------------
(* internal/cmd/root.go: processYAMLMode / processAPIMode /                *)
(* processRegisterMode.  The three runners have the same body and differ   *)
(* in the Strategy they call.                                              *)

Tasks == 1..nRepos

\* tasks between "semaphore <- struct{}{}" and the deferred "<-semaphore"
Holders == {i \in Tasks : taskPc[i] \in {"sleep", "running", "send", "release"}}

Running == {i \in Tasks : taskPc[i] = "running"}

ModeLabel(m) == IF m = "yaml" THEN "YAML"
                ELSE IF m = "api" THEN "API" ELSE "REGISTER"

NotReturned == [kind |-> "pending"]

\* sync.RWMutex: the caller holding it for writing (0: none) and the callers
\* holding it for reading
RWMutex(writer, readers) == [writer |-> writer, readers |-> readers]

\* no caller is inside the Manager
LockIdle ==
    /\ mutex = RWMutex(0, {})
    /\ callers = <<>>

StoreIdle ==
    /\ ledger = EmptyMap
    /\ lastRun = 0
    /\ disk = [kind |-> "missing"]
    /\ clock = 0
    /\ lastCall = [op |-> "none"]

Init ==
    /\ LockIdle
    /\ mode \in Modes
    /\ concurrency \in 1..MaxConcurrency
    /\ nRepos \in 0..MaxRepos
    /\ mainPc = "launch"
    /\ launched = 0
    /\ taskPc = [i \in 1..nRepos |-> "idle"]
    /\ taskResult = [i \in 1..nRepos |-> NoResult]
    /\ invocations = [i \in 1..nRepos |-> 0]
    /\ semaphore = 0
    /\ results = <<>>
    /\ summary = NewErrorSummary
    /\ runErr = NotReturned
    /\ exitStatus = -1
    /\ StoreIdle

\* for _, repo := range repos { go func(r) {...}(repo) }
Launch ==
    /\ mainPc = "launch"
    /\ launched < nRepos
    /\ launched' = launched + 1
    /\ taskPc' = [taskPc EXCEPT ![launched + 1] = "acquire"]
    /\ UNCHANGED <<mode, concurrency, nRepos, mainPc, taskResult, invocations,
                   semaphore, results, summary, runErr, exitStatus>>
    /\ UNCHANGED storeVars
    /\ UNCHANGED lockVars

\* the loop is over: summary := errors.NewErrorSummary()
StartCollect ==
    /\ mainPc = "launch"
    /\ launched = nRepos
    /\ mainPc' = "collect"
    /\ summary' = NewErrorSummary
    /\ UNCHANGED <<mode, concurrency, nRepos, launched, taskPc, taskResult,
                   invocations, semaphore, results, runErr, exitStatus>>
    /\ UNCHANGED storeVars
    /\ UNCHANGED lockVars

\* Acquire that does not wait for a free slot
AcquireNoWait(i) ==
    /\ mainPc # "exited"
    /\ taskPc[i] = "acquire"
    /\ semaphore' = semaphore + 1
    /\ taskPc' = [taskPc EXCEPT ![i] = "sleep"]
    /\ UNCHANGED <<mode, concurrency, nRepos, mainPc, launched, taskResult,
                   invocations, results, summary, runErr, exitStatus>>
    /\ UNCHANGED storeVars
    /\ UNCHANGED lockVars

\* semaphore <- struct{}{}
Acquire(i) ==
    /\ mainPc # "exited"
    /\ taskPc[i] = "acquire"
    /\ semaphore < concurrency
    /\ semaphore' = semaphore + 1
    /\ taskPc' = [taskPc EXCEPT ![i] = "sleep"]
    /\ UNCHANGED <<mode, concurrency, nRepos, mainPc, launched, taskResult,
                   invocations, results, summary, runErr, exitStatus>>
    /\ UNCHANGED storeVars
    /\ UNCHANGED lockVars

\* StartStrategy of a task that does not wait for its slot and the delay
StartStrategyUnadmitted(i) ==
    /\ mainPc # "exited"
    /\ taskPc[i] \in {"acquire", "sleep"}
    /\ taskPc' = [taskPc EXCEPT ![i] = "running"]
    /\ invocations' = [invocations EXCEPT ![i] = @ + 1]
    /\ UNCHANGED <<mode, concurrency, nRepos, mainPc, launched, taskResult,
                   semaphore, results, summary, runErr, exitStatus>>
    /\ UNCHANGED storeVars
    /\ UNCHANGED lockVars

\* time.Sleep(config.Runtime.RateLimit) returns; the Strategy is entered
StartStrategy(i) ==
    /\ mainPc # "exited"
    /\ taskPc[i] = "sleep"
    /\ taskPc' = [taskPc EXCEPT ![i] = "running"]
    /\ invocations' = [invocations EXCEPT ![i] = @ + 1]
    /\ UNCHANGED <<mode, concurrency, nRepos, mainPc, launched, taskResult,
                   semaphore, results, summary, runErr, exitStatus>>
    /\ UNCHANGED storeVars
    /\ UNCHANGED lockVars

\* FinishStrategy that sleeps and calls the Strategy again on a recoverable error
FinishStrategyRetry(i) ==
    /\ mainPc # "exited"
    /\ taskPc[i] = "running"
    /\ \E res \in StrategyResultsOf[mode, i] :
          /\ taskResult' = [taskResult EXCEPT ![i] = res]
          /\ taskPc' = [taskPc EXCEPT ![i] =
                 IF res.Error # NoError /\ res.Error.Recoverable
                    /\ invocations[i] < 2
                 THEN "sleep" ELSE "send"]
    /\ UNCHANGED <<mode, concurrency, nRepos, mainPc, launched, invocations,
                   semaphore, results, summary, runErr, exitStatus>>
    /\ UNCHANGED storeVars
    /\ UNCHANGED lockVars

\* result := processRepository...WithResult(ctx, r)
FinishStrategy(i) ==
    /\ mainPc # "exited"
    /\ taskPc[i] = "running"
    /\ \E res \in StrategyResultsOf[mode, i] :
          taskResult' = [taskResult EXCEPT ![i] = res]
    /\ taskPc' = [taskPc EXCEPT ![i] = "send"]
    /\ UNCHANGED <<mode, concurrency, nRepos, mainPc, launched, invocations,
                   semaphore, results, summary, runErr, exitStatus>>
    /\ UNCHANGED storeVars
    /\ UNCHANGED lockVars

\* results <- result    (channel of capacity len(repos))
SendResult(i) ==
    /\ mainPc # "exited"
    /\ taskPc[i] = "send"
    /\ Len(results) < nRepos
    /\ results' = Append(results, taskResult[i])
    /\ taskPc' = [taskPc EXCEPT ![i] = "release"]
    /\ UNCHANGED <<mode, concurrency, nRepos, mainPc, launched, taskResult,
                   invocations, semaphore, summary, runErr, exitStatus>>
    /\ UNCHANGED storeVars
    /\ UNCHANGED lockVars

\* Release that is skipped when the task's result is failed
ReleaseUnlessFailed(i) ==
    /\ mainPc # "exited"
    /\ taskPc[i] = "release"
    /\ semaphore > 0
    /\ semaphore' = IF taskResult[i].Action = "failed"
                    THEN semaphore ELSE semaphore - 1
    /\ taskPc' = [taskPc EXCEPT ![i] = "done"]
    /\ UNCHANGED <<mode, concurrency, nRepos, mainPc, launched, taskResult,
                   invocations, results, summary, runErr, exitStatus>>
    /\ UNCHANGED storeVars
    /\ UNCHANGED lockVars

\* defer func() { <-semaphore }()
Release(i) ==
    /\ mainPc # "exited"
    /\ taskPc[i] = "release"
    /\ semaphore > 0
    /\ semaphore' = semaphore - 1
    /\ taskPc' = [taskPc EXCEPT ![i] = "done"]
    /\ UNCHANGED <<mode, concurrency, nRepos, mainPc, launched, taskResult,
                   invocations, results, summary, runErr, exitStatus>>
    /\ UNCHANGED storeVars
    /\ UNCHANGED lockVars

\* result := <-results; summary.AddResult(result)
Collect ==
    /\ mainPc = "collect"
    /\ Len(summary.Results) < nRepos
    /\ Len(results) > 0
    /\ summary' = AddResult(summary, Head(results))
    /\ results' = Tail(results)
    /\ UNCHANGED <<mode, concurrency, nRepos, mainPc, launched, taskPc,
                   taskResult, invocations, semaphore, runErr, exitStatus>>
    /\ UNCHANGED storeVars
    /\ UNCHANGED lockVars

\* RunnerError that fails the run only when every repository failed
RunnerErrorAllFailed(s, m) ==
    IF s.Total > 0 /\ s.Total >= Len(s.Results)
    THEN RawError(<<"encountered ", ToString(s.Total), " errors during ",
                    ModeLabel(m), " processing">>)
    ELSE NoError

\* the value the mode runner returns once the collecting loop is over
RunnerError(s, m) ==
    IF s.Total > 0
    THEN RawError(<<"encountered ", ToString(s.Total), " errors during ",
                    ModeLabel(m), " processing">>)
    ELSE NoError

\* if summary.Total > 0 { return fmt.Errorf(...) }; return nil
Return ==
    /\ mainPc = "collect"
    /\ Len(summary.Results) >= nRepos
    /\ runErr' = RunnerError(summary, mode)
    /\ mainPc' = "returned"
    /\ UNCHANGED <<mode, concurrency, nRepos, launched, taskPc, taskResult,
                   invocations, semaphore, results, summary, exitStatus>>
    /\ UNCHANGED storeVars
    /\ UNCHANGED lockVars

\* main: if err := cmd.Execute(ctx); err != nil { os.Exit(1) }
Exit ==
    /\ mainPc = "returned"
    /\ exitStatus' = IF runErr # NoError THEN 1 ELSE 0
    /\ mainPc' = "exited"
    /\ UNCHANGED <<mode, concurrency, nRepos, launched, taskPc, taskResult,
                   invocations, semaphore, results, summary, runErr>>
    /\ UNCHANGED storeVars
    /\ UNCHANGED lockVars

TaskStep(i) ==
    \/ Acquire(i)
    \/ StartStrategy(i)
    \/ FinishStrategy(i)
    \/ SendResult(i)
    \/ Release(i)

Next ==
    \/ Launch
    \/ StartCollect
    \/ \E i \in Tasks : Acquire(i)
    \/ \E i \in Tasks : StartStrategy(i)
    \/ \E i \in Tasks : FinishStrategy(i)
    \/ \E i \in Tasks : SendResult(i)
    \/ \E i \in Tasks : Release(i)
    \/ Collect
    \/ Return
    \/ Exit

Spec == Init /\ [][Next]_vars

\* every goroutine that can take a step eventually takes it (Go scheduler),
\* and every Strategy invocation returns
FairSpec ==
    /\ Spec
    /\ WF_vars(Launch) /\ WF_vars(StartCollect) /\ WF_vars(Collect)
    /\ WF_vars(Return)
    /\ \A i \in 1..MaxRepos : WF_vars(i \in Tasks /\ TaskStep(i))

----------------------------------------------------------------------------
(* internal/cmd/root.go: runOnboarder, from the configuration to the mode runner *)

\* values of config.Runtime.Mode: the three modes and one unsupported value
RunModes == Modes \cup {"batch"}

\* the state in which runOnboarder is entered
RunInit ==
    /\ LockIdle
    /\ mode \in RunModes
    /\ concurrency \in 1..MaxConcurrency
    /\ nRepos \in 0..MaxRepos
    /\ mainPc = "start"
    /\ launched = 0
    /\ taskPc = [i \in 1..nRepos |-> "idle"]
    /\ taskResult = [i \in 1..nRepos |-> NoResult]
    /\ invocations = [i \in 1..nRepos |-> 0]
    /\ semaphore = 0
    /\ results = <<>>
    /\ summary = NewErrorSummary
    /\ runErr = NotReturned
    /\ exitStatus = -1
    /\ ledger = EmptyMap
    /\ lastRun = 0
    /\ disk = [kind |-> "missing"]
    /\ clock = 0
    /\ lastCall \in [op : {"config"}, DryRun : BOOLEAN]

\* runOnboarder that goes to the mode switch without looking at DryRun
runOnboarderIgnoresDryRun(dryRun, discovered) ==
    IF ~discovered
    THEN [pc |-> "returned", err |-> RawError(<<"failed to discover repositories">>)]
    ELSE IF mode \in Modes
    THEN [pc |-> "launch", err |-> NotReturned]
    ELSE [pc |-> "returned", err |-> RawError(<<"unsupported mode">>)]

\* runOnboarder up to the call of the mode runner: where main goes next and
\* the error returned when it returns at once
runOnboarder(dryRun, discovered) ==
    IF ~discovered
    THEN [pc |-> "returned", err |-> RawError(<<"failed to discover repositories">>)]
    ELSE IF dryRun
    THEN [pc |-> "returned", err |-> NoError]
    ELSE IF mode \in Modes
    THEN [pc |-> "launch", err |-> NotReturned]
    ELSE [pc |-> "returned", err |-> RawError(<<"unsupported mode">>)]

\* discovery answers (or fails), the repositories are filtered, then the
\* dry-run test and the mode switch
StartRun(discovered) ==
    /\ mainPc = "start"
    /\ LET next == runOnboarder(lastCall.DryRun, discovered) IN
          /\ mainPc' = next.pc
          /\ runErr' = next.err
    /\ lastCall' = [op |-> "runOnboarder", DryRun |-> lastCall.DryRun,
                    discovered |-> discovered]
    /\ UNCHANGED <<mode, concurrency, nRepos, launched, taskPc, taskResult,
                   invocations, semaphore, results, summary, exitStatus>>
    /\ UNCHANGED <<ledger, lastRun, disk, clock>>
    /\ UNCHANGED lockVars

RunNext ==
    \/ \E discovered \in BOOLEAN : StartRun(discovered)
    \/ Launch
    \/ StartCollect
    \/ \E i \in Tasks : Acquire(i)
    \/ \E i \in Tasks : StartStrategy(i)
    \/ \E i \in Tasks : FinishStrategy(i)
    \/ \E i \in Tasks : SendResult(i)
    \/ \E i \in Tasks : Release(i)
    \/ Collect
    \/ Return
    \/ Exit

RunSpec == RunInit /\ [][RunNext]_vars

----------------------------------------------------------------------------
(* internal/state/manager.go: the state Manager *)

\* repositories the ledger is exercised with
StoreRepos == {RepoName(1), RepoName(2)}

\* the clock advances in steps of TickHours up to MaxClock
TickHours == 24

MaxClock == 48

ErrorRetryHours == 24

SuccessSkipHours == 7 * 24

MaxErrorLen == 500

\* an error text: what it says and how many bytes it has
ErrorString(text, len) == [text |-> text, len |-> len]

EmptyString == ErrorString("", 0)

RepoState(lastProcessed, lastCommit, status, error) ==
    [LastProcessed |-> lastProcessed, LastCommit |-> lastCommit,
     Status |-> status, Error |-> error]

\* the zero value of models.RepoState
ZeroRepoState == RepoState(0, "", "", EmptyString)

\* json.MarshalIndent of one RepoState: the error key is omitempty
MarshalRepoState(rs) ==
    IF rs.Error.len = 0
    THEN [last_processed |-> rs.LastProcessed, last_commit |-> rs.LastCommit,
          status |-> rs.Status]
    ELSE [last_processed |-> rs.LastProcessed, last_commit |-> rs.LastCommit,
          status |-> rs.Status, error |-> rs.Error]

\* json.Unmarshal of one RepoState object: an absent key leaves the zero value
UnmarshalRepoState(obj) ==
    RepoState(obj.last_processed, obj.last_commit, obj.status,
              IF "error" \in DOMAIN obj THEN obj.error ELSE EmptyString)

\* json.MarshalIndent(m.state, "", "  ")
MarshalState(run, repos) ==
    [kind |-> "json", last_run |-> run,
     processed_repos |-> [r \in DOMAIN repos |-> MarshalRepoState(repos[r])]]

\* what ioutil.WriteFile leaves in the file: the data when it succeeds; when
\* it fails, the old content (open failed) or a truncated file (write failed)
WriteFile(old, data, outcome) ==
    IF outcome = "ok" THEN data
    ELSE IF outcome = "open_failed" THEN old
    ELSE IF outcome = "truncated" THEN [kind |-> "empty"]
    ELSE [kind |-> "partial"]

WriteOutcomes == {"ok", "open_failed", "truncated", "partial"}

\* loadState: the error it returns and what it leaves in m.state. A missing
\* or zero-length file is no error; an unreadable file and a syntax error leave
\* m.state alone; a value of the wrong type is reported after json.Unmarshal
\* has stored the entries it could decode
loadState(file) ==
    IF file.kind \in {"missing", "empty"}
    THEN [err |-> NoError, repos |-> EmptyMap, lastRun |-> 0]
    ELSE IF file.kind = "unreadable"
    THEN [err |-> RawError(<<"failed to read state file">>),
          repos |-> EmptyMap, lastRun |-> 0]
    ELSE IF file.kind = "partial"
    THEN [err |-> RawError(<<"failed to unmarshal state">>),
          repos |-> EmptyMap, lastRun |-> 0]
    ELSE IF file.kind = "badtype"
    THEN [err |-> RawError(<<"failed to unmarshal state">>),
          repos |-> [r \in DOMAIN file.processed_repos |->
                        UnmarshalRepoState(file.processed_repos[r])],
          lastRun |-> file.last_run]
    ELSE IF file.kind = "nomap"
    THEN [err |-> NoError, repos |-> EmptyMap, lastRun |-> file.last_run]
    ELSE [err |-> NoError,
          repos |-> [r \in DOMAIN file.processed_repos |->
                        UnmarshalRepoState(file.processed_repos[r])],
          lastRun |-> file.last_run]

\* NewManager that keeps what a failed loadState left in m.state
LoadedReposNoReset(file) == loadState(file).repos

\* the ledger NewManager ends up with for a file content: a failed load is
\* logged and ProcessedRepos is replaced by an empty map
LoadedRepos(file) ==
    IF loadState(file).err # NoError THEN EmptyMap ELSE loadState(file).repos

LoadedLastRun(file) == loadState(file).lastRun

\* time.Since(t)
Since(t, now) == now - t

\* ShouldSkip with errorAge <= 24h
ShouldSkipErrorInclusive(repos, repoFullName, lastPushed, now) ==
    IF repoFullName \notin DOMAIN repos THEN FALSE
    ELSE LET repoState == repos[repoFullName] IN
         IF repoState.Status = "error"
         THEN Since(repoState.LastProcessed, now) <= ErrorRetryHours
         ELSE IF repoState.Status = "success"
         THEN IF lastPushed > repoState.LastProcessed THEN FALSE
              ELSE Since(repoState.LastProcessed, now) < SuccessSkipHours
         ELSE FALSE

\* ShouldSkip with !lastPushed.Before(LastProcessed) as the freshness test
ShouldSkipPushedNotBefore(repos, repoFullName, lastPushed, now) ==
    IF repoFullName \notin DOMAIN repos THEN FALSE
    ELSE LET repoState == repos[repoFullName] IN
         IF repoState.Status = "error"
         THEN Since(repoState.LastProcessed, now) < ErrorRetryHours
         ELSE IF repoState.Status = "success"
         THEN IF lastPushed >= repoState.LastProcessed THEN FALSE
              ELSE Since(repoState.LastProcessed, now) < SuccessSkipHours
         ELSE FALSE

\* ShouldSkip that treats every entry other than error as success
ShouldSkipInProgressAsDone(repos, repoFullName, lastPushed, now) ==
    IF repoFullName \notin DOMAIN repos THEN FALSE
    ELSE LET repoState == repos[repoFullName] IN
         IF repoState.Status = "error"
         THEN Since(repoState.LastProcessed, now) < ErrorRetryHours
         ELSE IF lastPushed > repoState.LastProcessed THEN FALSE
              ELSE Since(repoState.LastProcessed, now) < SuccessSkipHours

\* Manager.ShouldSkip(repoFullName, lastPushed)
ShouldSkip(repos, repoFullName, lastPushed, now) ==
    IF repoFullName \notin DOMAIN repos THEN FALSE
    ELSE LET repoState == repos[repoFullName] IN
         IF repoState.Status = "error"
         THEN Since(repoState.LastProcessed, now) < ErrorRetryHours
         ELSE IF repoState.Status = "success"
         THEN IF lastPushed > repoState.LastProcessed THEN FALSE
              ELSE Since(repoState.LastProcessed, now) < SuccessSkipHours
         ELSE FALSE

\* the message RecordError stores
StoredErrorMsg(msg) ==
    IF msg.len > MaxErrorLen
    THEN ErrorString(msg.text, MaxErrorLen + 3)
    ELSE msg

\* m.state.ProcessedRepos[repoFullName] = value
Put(repos, repoFullName, value) ==
    [r \in DOMAIN repos \cup {repoFullName} |->
        IF r = repoFullName THEN value ELSE repos[r]]

\* delete(m.state.ProcessedRepos, repoFullName)
Delete(repos, repoFullName) ==
    [r \in DOMAIN repos \ {repoFullName} |-> repos[r]]

\* saveStateUnsafe: LastRun is set, the full state is written to the file
SaveStateUnsafe(repos, outcome) ==
    /\ lastRun' = clock
    /\ disk' = WriteFile(disk, MarshalState(clock, repos), outcome)

\* the error texts RecordError is called with
StoreErrors ==
    { ErrorString("boom", 4), ErrorString("long", MaxErrorLen + 100) }

\* the freshness signals ShouldSkip is called with
PushTimes == {0, TickHours}

RecordSuccess(repoFullName, outcome) ==
    /\ ledger' = Put(ledger, repoFullName, RepoState(clock, "", "success", EmptyString))
    /\ SaveStateUnsafe(ledger', outcome)
    /\ lastCall' = [op |-> "RecordSuccess", saved |-> (outcome = "ok")]
    /\ UNCHANGED clock
    /\ UNCHANGED pipelineVars
    /\ UNCHANGED lockVars

RecordError(repoFullName, err, outcome) ==
    /\ ledger' = Put(ledger, repoFullName,
                     RepoState(clock, "", "error", StoredErrorMsg(err)))
    /\ SaveStateUnsafe(ledger', outcome)
    /\ lastCall' = [op |-> "RecordError", saved |-> (outcome = "ok")]
    /\ UNCHANGED clock
    /\ UNCHANGED pipelineVars
    /\ UNCHANGED lockVars

\* RecordInProgress changes the entry in memory and does not write the file
RecordInProgress(repoFullName) ==
    /\ LET existing == IF repoFullName \in DOMAIN ledger
                       THEN ledger[repoFullName] ELSE ZeroRepoState
       IN ledger' = Put(ledger, repoFullName,
                        [existing EXCEPT !.LastProcessed = clock,
                                         !.Status = "in_progress",
                                         !.Error = EmptyString])
    /\ lastCall' = [op |-> "RecordInProgress", saved |-> TRUE]
    /\ UNCHANGED <<lastRun, disk, clock>>
    /\ UNCHANGED pipelineVars
    /\ UNCHANGED lockVars

ShouldSkipCall(repoFullName, lastPushed) ==
    /\ lastCall' = [op |-> "ShouldSkip", repo |-> repoFullName,
                    lastPushed |-> lastPushed,
                    ret |-> ShouldSkip(ledger, repoFullName, lastPushed, clock)]
    /\ UNCHANGED <<ledger, lastRun, disk, clock>>
    /\ UNCHANGED pipelineVars
    /\ UNCHANGED lockVars

ResetRepoState(repoFullName, outcome) ==
    /\ ledger' = Delete(ledger, repoFullName)
    /\ SaveStateUnsafe(ledger', outcome)
    /\ lastCall' = [op |-> "ResetRepoState", saved |-> (outcome = "ok")]
    /\ UNCHANGED clock
    /\ UNCHANGED pipelineVars
    /\ UNCHANGED lockVars

\* the entries CleanupOldEntries deletes: LastProcessed.Before(now - maxAge)
OldEntries(repos, maxAge, now) ==
    {r \in DOMAIN repos : repos[r].LastProcessed < now - maxAge}

\* the ages CleanupOldEntries is called with
CleanupAges == {0, TickHours}

\* CleanupOldEntries writes the file only when it deleted something
CleanupOldEntries(maxAge, outcome) ==
    /\ LET old == OldEntries(ledger, maxAge, clock) IN
          /\ ledger' = [r \in DOMAIN ledger \ old |-> ledger[r]]
          /\ IF old # {}
             THEN SaveStateUnsafe(ledger', outcome)
             ELSE UNCHANGED <<lastRun, disk>>
          /\ lastCall' = [op |-> "CleanupOldEntries",
                          saved |-> (old # {} /\ outcome = "ok")]
    /\ UNCHANGED clock
    /\ UNCHANGED pipelineVars
    /\ UNCHANGED lockVars

ResetAllState(outcome) ==
    /\ ledger' = EmptyMap
    /\ SaveStateUnsafe(ledger', outcome)
    /\ lastCall' = [op |-> "ResetAllState", saved |-> (outcome = "ok")]
    /\ UNCHANGED clock
    /\ UNCHANGED pipelineVars
    /\ UNCHANGED lockVars

\* the process ends and a new one calls NewManager on the same file
NewManager ==
    /\ ledger' = LoadedRepos(disk)
    /\ lastRun' = LoadedLastRun(disk)
    /\ lastCall' = [op |-> "NewManager", err |-> NoError]
    /\ UNCHANGED <<disk, clock>>
    /\ UNCHANGED pipelineVars
    /\ UNCHANGED lockVars

Tick ==
    /\ clock + TickHours <= MaxClock
    /\ clock' = clock + TickHours
    /\ UNCHANGED <<ledger, lastRun, disk, lastCall>>
    /\ UNCHANGED pipelineVars
    /\ UNCHANGED lockVars

PipelineIdle ==
    /\ mode = "yaml"
    /\ concurrency = 1
    /\ nRepos = 0
    /\ mainPc = "idle"
    /\ launched = 0
    /\ taskPc = <<>>
    /\ taskResult = <<>>
    /\ invocations = <<>>
    /\ semaphore = 0
    /\ results = <<>>
    /\ summary = NewErrorSummary
    /\ runErr = NotReturned
    /\ exitStatus = -1

StoreInit ==
    /\ LockIdle
    /\ PipelineIdle
    /\ StoreIdle

StoreNext ==
    \/ \E r \in StoreRepos, o \in WriteOutcomes : RecordSuccess(r, o)
    \/ \E r \in StoreRepos, e \in StoreErrors, o \in WriteOutcomes :
           RecordError(r, e, o)
    \/ \E r \in StoreRepos : RecordInProgress(r)
    \/ \E r \in StoreRepos, p \in PushTimes : ShouldSkipCall(r, p)
    \/ \E r \in StoreRepos, o \in WriteOutcomes : ResetRepoState(r, o)
    \/ \E a \in CleanupAges, o \in WriteOutcomes : CleanupOldEntries(a, o)
    \/ \E o \in WriteOutcomes : ResetAllState(o)
    \/ NewManager
    \/ Tick

StoreSpec == StoreInit /\ [][StoreNext]_vars

----------------------------------------------------------------------------
(* ShouldSkip applied to a loaded ledger, hour by hour *)

MaxNow == 170

MaxEntryTime == 2

Statuses == {"success", "error", "in_progress"}

\* ledgers NewManager can load: empty, or one entry for the first repository
SkipLedgers ==
    {EmptyMap} \cup
    { Put(EmptyMap, RepoName(1), RepoState(t, "", st, EmptyString)) :
        t \in 0..MaxEntryTime, st \in Statuses }

SkipInit ==
    /\ LockIdle
    /\ PipelineIdle
    /\ ledger \in SkipLedgers
    /\ lastRun = 0
    /\ disk = MarshalState(0, ledger)
    /\ clock \in 0..MaxNow
    /\ lastCall = [op |-> "none"]

SkipNext ==
    \E r \in StoreRepos, p \in 0..(MaxEntryTime + 1) : ShouldSkipCall(r, p)

SkipSpec == SkipInit /\ [][SkipNext]_vars

----------------------------------------------------------------------------
(* NewManager on whatever the state file holds *)

\* the instants of the entries a state file holds
LoadTimes == {0, TickHours}

\* entries a state file can hold for the first repository
LoadEntries ==
    { Put(EmptyMap, RepoName(1), RepoState(t, "", st, EmptyString)) :
        t \in LoadTimes, st \in Statuses }

\* what can be found at filePath: nothing, a zero-length file, a file that
\* cannot be read, a cut-off document, a document with a value of the wrong
\* type after some entries, a document with a null map, a state document
LoadFiles ==
    { [kind |-> k] : k \in {"missing", "empty", "unreadable", "partial"} }
    \cup { [kind |-> "badtype", last_run |-> 0,
            processed_repos |-> MarshalState(0, l).processed_repos] :
              l \in LoadEntries }
    \cup { [kind |-> "nomap", last_run |-> 0] }
    \cup { MarshalState(0, l) : l \in LoadEntries \cup {EmptyMap} }

LoadInit ==
    /\ LockIdle
    /\ PipelineIdle
    /\ ledger = EmptyMap
    /\ lastRun = 0
    /\ disk \in LoadFiles
    /\ clock \in {0, TickHours}
    /\ lastCall = [op |-> "none"]

LoadNext ==
    \/ lastCall.op = "none" /\ NewManager
    \/ /\ lastCall.op # "none"
       /\ \E r \in StoreRepos, p \in PushTimes : ShouldSkipCall(r, p)

LoadSpec == LoadInit /\ [][LoadNext]_vars

----------------------------------------------------------------------------
(* AddResult applied to a fresh ErrorSummary *)

\* the results handed to AddResult: what the three Strategies produce
SummaryResults == UNION {StrategyResultsOf[m, 1] : m \in Modes}

SummaryInit ==
    /\ LockIdle
    /\ mode = "yaml"
    /\ concurrency = 1
    /\ nRepos = 0
    /\ mainPc = "collect"
    /\ launched = 0
    /\ taskPc = <<>>
    /\ taskResult = <<>>
    /\ invocations = <<>>
    /\ semaphore = 0
    /\ results = <<>>
    /\ summary = NewErrorSummary
    /\ runErr = NotReturned
    /\ exitStatus = -1
    /\ StoreIdle

AddResultCall(result) ==
    /\ Len(summary.Results) < MaxResults
    /\ summary' = AddResult(summary, result)
    /\ UNCHANGED <<mode, concurrency, nRepos, mainPc, launched, taskPc,
                   taskResult, invocations, semaphore, results, runErr,
                   exitStatus>>
    /\ UNCHANGED storeVars
    /\ UNCHANGED lockVars

SummaryNext == \E result \in SummaryResults : AddResultCall(result)

SummarySpec == SummaryInit /\ [][SummaryNext]_vars

----------------------------------------------------------------------------
(* CategorizeError applied to raw and to structured errors *)

MaxMsgLen == 2

\* pieces of the texts the GitHub and Harness clients put in their errors
Fragments ==
    { "HTTP 404", "HTTP 403", "HTTP 401", "HTTP 429", "HTTP 500", "Not Found",
      "Forbidden", "Unauthorized", "API rate limit exceeded",
      "DUPLICATE_FILE_IMPORT", "has already been imported", "Duplicate key",
      "Entity Already Exists", "A pull request already exists",
      "catalog-info.yaml not found", "no catalog-info.yaml file found",
      "connection reset" }

\* err.Error() of the raw errors: one to MaxMsgLen fragments
Messages ==
    UNION { [1..n -> Fragments] : n \in 1..MaxMsgLen }

RawErrors == { RawError(msg) : msg \in Messages }

\* errors that already are a *ProcessingError, with and without a repository
StructuredErrors ==
    UNION { { NewRepositoryNotFoundError(r, HTTP500),
              NewEntityExistsError(r, "repo", HTTP500),
              NewEntityAlreadyRegisteredError(r, HTTP500),
              NewCatalogFileNotFoundError(r, NoError),
              NewPRExistsError(r, "0", NoError),
              NewUnauthorizedError(<<"Harness authentication failed">>, HTTP500),
              NewRateLimitError(HTTP429) } : r \in {"", RepoName(2)} }

CategorizeRepos == {RepoName(1), RepoName(2)}

CategorizeInit ==
    /\ LockIdle
    /\ PipelineIdle
    /\ StoreIdle

\* procErr := errors.CategorizeError(err, repo.FullName), on a fresh error
CategorizeErrorCall(err, repo) ==
    /\ lastCall.op = "none"
    /\ lastCall' = [op |-> "CategorizeError", err |-> err, repo |-> repo,
                    ret |-> CategorizeError(err, repo), again |-> FALSE]
    /\ UNCHANGED <<ledger, lastRun, disk, clock>>
    /\ UNCHANGED pipelineVars
    /\ UNCHANGED lockVars

\* the returned error is handed to CategorizeError once more, same repository
CategorizeAgain ==
    /\ lastCall.op = "CategorizeError"
    /\ ~lastCall.again
    /\ lastCall' = [op |-> "CategorizeError", err |-> lastCall.ret,
                    repo |-> lastCall.repo,
                    ret |-> CategorizeError(lastCall.ret, lastCall.repo),
                    again |-> TRUE]
    /\ UNCHANGED <<ledger, lastRun, disk, clock>>
    /\ UNCHANGED pipelineVars
    /\ UNCHANGED lockVars

CategorizeNext ==
    \/ \E err \in RawErrors \cup StructuredErrors, repo \in CategorizeRepos :
           CategorizeErrorCall(err, repo)
    \/ CategorizeAgain

CategorizeSpec == CategorizeInit /\ [][CategorizeNext]_vars

----------------------------------------------------------------------------
(* One Strategy invocation with the calls it makes to its collaborators *)

\* one call to a collaborator and how it ended
Call(name, answer) == [name |-> name, answer |-> answer]

\* the calls that change the repository: branch, file and pull request
WriteCalls == {"CreateRef", "CreateFile", "UpdateFile", "PullRequests.Create"}

CatalogPaths ==
    << "catalog-info.yaml", "catalog-info.yml", ".harness/catalog-info.yaml",
       ".harness/catalog-info.yml" >>

\* what Repositories.GetContents gives for one path: a file, a 404, no error
\* and no file (a directory), a file that cannot be decoded, another failure
ContentsAnswers == {"found", "not_found", "nil", "undecodable", "error"}

\* the loop of getCatalogInfoPathAndContent from candidate path k on
RECURSIVE LookupFrom(_, _)
LookupFrom(k, answers) ==
    IF k > Len(CatalogPaths)
    THEN [path |-> "", content |-> "", calls |-> <<>>,
          err |-> RawError(<<"no catalog-info.yaml file found">>)]
    ELSE LET call == Call("GetContents", answers[k]) IN
         IF answers[k] \in {"not_found", "nil"}
         THEN LET rest == LookupFrom(k + 1, answers)
              IN [rest EXCEPT !.calls = <<call>> \o rest.calls]
         ELSE IF answers[k] = "error"
         THEN [path |-> "", content |-> "", calls |-> <<call>>,
               err |-> Wrap("error checking ", Wrap(CatalogPaths[k], HTTP500))]
         ELSE IF answers[k] = "undecodable"
         THEN [path |-> "", content |-> "", calls |-> <<call>>,
               err |-> Wrap("error decoding content from ",
                            RawError(<<CatalogPaths[k]>>))]
         ELSE [path |-> CatalogPaths[k], content |-> "yaml", calls |-> <<call>>,
               err |-> NoError]

getCatalogInfoPathAndContent(answers) == LookupFrom(1, answers)

\* err.Error() of the *HTTPError doRequest returns
HTTPError(status, body) == RawError(<<status, ": ">> \o body)

\* what the catalog answers to POST /gateway/v1/entities/import
ImportResponses ==
    { [status |-> "HTTP 200", body |-> <<>>],
      [status |-> "HTTP 400",
       body |-> <<"DUPLICATE_FILE_IMPORT", "has already been imported">>],
      [status |-> "HTTP 400", body |-> <<"DUPLICATE_FILE_IMPORT">>],
      [status |-> "HTTP 404", body |-> <<"Not Found">>],
      [status |-> "HTTP 401", body |-> <<"Unauthorized">>],
      [status |-> "HTTP 429", body |-> <<"Too Many Requests">>],
      [status |-> "HTTP 500", body |-> <<"Internal Server Error">>] }

\* harnessClient.RegisterCatalogLocation, from the catalog's answer on
RegisterCatalogLocation(repoFullName, resp) ==
    IF resp.status = "HTTP 200" THEN NoError
    ELSE LET err == HTTPError(resp.status, resp.body)
             errBody == LowerText(resp.body)
         IN IF Contains(errBody, "duplicate_file_import")
               \/ Contains(errBody, "already been imported")
            THEN NewEntityAlreadyRegisteredError(repoFullName, err)
            ELSE IF resp.status = "HTTP 404"
            THEN ProcessingError("REPOSITORY", "REPOSITORY_NOT_FOUND",
                     <<"repository or file not found">>, repoFullName,
                     CauseOf(err), FALSE,
                     <<"Repository '", repoFullName, "' or catalog file not found.">>)
            ELSE IF resp.status = "HTTP 401"
            THEN NewUnauthorizedError(<<"Harness API authentication failed">>, err)
            ELSE Wrap("failed to import entity: ", err)

\* has the catalog answered that the file was imported before
AlreadyImported(resp) ==
    /\ resp.status # "HTTP 200"
    /\ \E k \in 1..Len(resp.body) : resp.body[k] = "DUPLICATE_FILE_IMPORT"

\* CreatePR of the GitHub client: the calls it makes and the error it returns
CreatePR(repo, branch, ref, contents, write, pr) ==
    IF branch = "error"
    THEN [calls |-> <<Call("GetBranch", "error")>>,
          err |-> Wrap("failed to get base branch: ", HTTP500)]
    ELSE IF ref = "exists"
    THEN [calls |-> <<Call("GetBranch", "ok"), Call("CreateRef", "exists")>>,
          err |-> NewPRExistsError(repo, "0",
                      RawError(<<"reference already exists">>))]
    ELSE IF ref = "error"
    THEN [calls |-> <<Call("GetBranch", "ok"), Call("CreateRef", "error")>>,
          err |-> Wrap("failed to create branch: ", HTTP500)]
    ELSE LET checks == <<Call("GetBranch", "ok"), Call("CreateRef", "ok"),
                         Call("GetContents", contents)>>
         IN
         IF contents = "undecodable"
         THEN [calls |-> checks,
               err |-> RawError(<<"failed to get existing content: ">>)]
         ELSE IF contents = "same"
         THEN [calls |-> checks, err |-> NoError]
         ELSE IF contents \notin {"different", "not_found"}
         THEN [calls |-> checks,
               err |-> Wrap("failed to check existing file: ", HTTP500)]
         ELSE LET fileCall == IF contents = "different"
                              THEN "UpdateFile" ELSE "CreateFile"
              IN
              IF write = "error"
              THEN [calls |-> Append(checks, Call(fileCall, "error")),
                    err |-> IF contents = "different"
                            THEN Wrap("failed to update file: ", HTTP500)
                            ELSE Wrap("failed to create file: ", HTTP500)]
              ELSE IF pr = "error"
              THEN [calls |-> checks \o <<Call(fileCall, "ok"),
                                         Call("PullRequests.Create", "error")>>,
                    err |-> Wrap("failed to create PR: ", HTTP429)]
              ELSE [calls |-> checks \o <<Call(fileCall, "ok"),
                                         Call("PullRequests.Create", "ok")>>,
                    err |-> NoError]

\* every way a CreatePR call can go
CreatePRRuns(repo) ==
    { CreatePR(repo, branch, ref, contents, write, pr) :
        branch \in {"ok", "error"}, ref \in {"ok", "exists", "error"},
        contents \in {"same", "different", "not_found", "undecodable", "error"},
        write \in {"ok", "error"}, pr \in {"ok", "error"} }

\* how a call ended, from the error it returned
AnswerOf(err, graceful) ==
    IF err = NoError THEN "ok"
    ELSE IF IsProcessingError(err) /\ err.Type = graceful THEN "exists"
    ELSE "error"

\* how the manifest lookup of the GitHub client ended
CatalogAnswer(catalog) ==
    IF catalog.err = NoError
    THEN (IF catalog.content # "" THEN "found" ELSE "empty")
    ELSE IF catalog.err = RawError(<<"no catalog-info.yaml file found">>)
    THEN "not_found"
    ELSE "error"

\* the generate-manifest Strategy that only logs an open pull request
YAMLCallsNoEarlyReturn(prCheck, catalog, component, marshalOk, createPR) ==
    << Call("CheckForExistingOnboardingPR",
            IF prCheck.err # NoError THEN "error"
            ELSE IF prCheck.pr THEN "found" ELSE "none"),
       Call("GetCatalogInfo", CatalogAnswer(catalog)) >>
    \o (IF catalog.err = NoError /\ catalog.content # ""
        THEN << Call("GetComponent",
                     IF component.err # NoError THEN "error"
                     ELSE IF component.component THEN "found" ELSE "none") >>
        ELSE IF ~marshalOk THEN <<>>
        ELSE <<Call("CreatePR", AnswerOf(createPR.err, "PR_EXISTS"))>>
                 \o createPR.calls)

\* the collaborator calls of processRepositoryYAMLWithResult, in order
YAMLCalls(prCheck, catalog, component, marshalOk, createPR) ==
    << Call("CheckForExistingOnboardingPR",
            IF prCheck.err # NoError THEN "error"
            ELSE IF prCheck.pr THEN "found" ELSE "none") >>
    \o (IF prCheck.pr THEN <<>>
        ELSE <<Call("GetCatalogInfo", CatalogAnswer(catalog))>>
        \o (IF catalog.err = NoError /\ catalog.content # ""
            THEN << Call("GetComponent",
                         IF component.err # NoError THEN "error"
                         ELSE IF component.component THEN "found" ELSE "none") >>
            ELSE IF ~marshalOk THEN <<>>
            ELSE <<Call("CreatePR", AnswerOf(createPR.err, "PR_EXISTS"))>>
                     \o createPR.calls))

\* what the catalog answers to the POST or PUT of an entity
EntityResponses ==
    { [status |-> "HTTP 200", body |-> <<>>],
      [status |-> "HTTP 409", body |-> <<"Conflict">>],
      [status |-> "HTTP 400", body |-> <<"Entity Already Exists">>],
      [status |-> "HTTP 401", body |-> <<"Unauthorized">>],
      [status |-> "HTTP 429", body |-> <<"Too Many Requests">>],
      [status |-> "HTTP 500", body |-> <<"Internal Server Error">>] }

\* the catalog rejects the entity as already existing
RejectedAsExisting(resp) ==
    \/ resp.status = "HTTP 409"
    \/ Contains(LowerText(resp.body), "already exists")

\* CreateComponent that recognises an existing entity by the body only
CreateComponentBodyOnly(existing, resp) ==
    IF resp.status = "HTTP 200" THEN NoError
    ELSE LET err == HTTPError(resp.status, resp.body) IN
         IF existing THEN Wrap("failed to update component: ", err)
         ELSE IF Contains(LowerText(resp.body), "already exists")
         THEN NewEntityExistsError("", "repo", err)
         ELSE IF resp.status = "HTTP 401"
         THEN NewUnauthorizedError(<<"Harness API authentication failed">>, err)
         ELSE IF resp.status = "HTTP 403"
         THEN ProcessingError("AUTHENTICATION", "FORBIDDEN",
                  <<"insufficient permissions">>, "", CauseOf(err), FALSE,
                  <<"Access forbidden. Check your Harness API key permissions.">>)
         ELSE Wrap("failed to create component: ", err)

\* harnessClient.CreateComponent: existing is what its GetComponent dry run
\* found; resp answers the PUT of UpdateComponent or the POST of the entity
CreateComponent(existing, resp) ==
    IF resp.status = "HTTP 200" THEN NoError
    ELSE LET err == HTTPError(resp.status, resp.body) IN
         IF existing THEN Wrap("failed to update component: ", err)
         ELSE IF RejectedAsExisting(resp)
         THEN NewEntityExistsError("", "repo", err)
         ELSE IF resp.status = "HTTP 401"
         THEN NewUnauthorizedError(<<"Harness API authentication failed">>, err)
         ELSE IF resp.status = "HTTP 403"
         THEN ProcessingError("AUTHENTICATION", "FORBIDDEN",
                  <<"insufficient permissions">>, "", CauseOf(err), FALSE,
                  <<"Access forbidden. Check your Harness API key permissions.">>)
         ELSE Wrap("failed to create component: ", err)

\* the collaborator calls of processRepositoryAPIWithResult
APICalls(existing, resp) ==
    << Call("GetComponent", IF existing THEN "found" ELSE "none"),
       Call(IF existing THEN "UpdateComponent" ELSE "CreateEntity",
            IF resp.status = "HTTP 200" THEN "ok"
            ELSE IF RejectedAsExisting(resp) THEN "exists" ELSE "error") >>

\* the collaborator calls of processRepositoryRegisterWithResult
RegisterCalls(look, resp) ==
    look.calls
    \o (IF look.err # NoError THEN <<>>
        ELSE << Call("RegisterCatalogLocation",
                     IF resp.status = "HTTP 200" THEN "ok"
                     ELSE IF AlreadyImported(resp) THEN "exists"
                     ELSE "error") >>)

StrategyInit ==
    /\ LockIdle
    /\ mode \in Modes
    /\ concurrency = 1
    /\ nRepos = 1
    /\ mainPc = "collect"
    /\ launched = 0
    /\ taskPc = <<>>
    /\ taskResult = <<>>
    /\ invocations = <<>>
    /\ semaphore = 0
    /\ results = <<>>
    /\ summary = NewErrorSummary
    /\ runErr = NotReturned
    /\ exitStatus = -1
    /\ StoreIdle

\* a Strategy invocation returned res after calls; its result is collected
StrategyReturns(repo, calls, res, rerun) ==
    /\ lastCall' = [op |-> "Strategy", repo |-> repo, calls |-> calls,
                    result |-> res, rerun |-> rerun]
    /\ summary' = AddResult(NewErrorSummary, res)
    /\ UNCHANGED <<mode, concurrency, nRepos, mainPc, launched, taskPc,
                   taskResult, invocations, semaphore, results, runErr,
                   exitStatus>>
    /\ UNCHANGED <<ledger, lastRun, disk, clock>>
    /\ UNCHANGED lockVars

YAMLRun(repo) ==
    /\ mode = "yaml"
    /\ lastCall.op = "none"
    /\ \E prCheck \in PRCheckOutcomes, catalog \in CatalogInfoOutcomes,
          component \in GetComponentOutcomes, marshalOk \in BOOLEAN,
          createPR \in CreatePRRuns(repo) :
          StrategyReturns(repo,
              YAMLCalls(prCheck, catalog, component, marshalOk, createPR),
              processRepositoryYAMLWithResult(repo, prCheck, catalog, component,
                                              marshalOk, createPR.err),
              FALSE)

APIRun(repo) ==
    /\ mode = "api"
    /\ lastCall.op = "none"
    /\ \E existing \in BOOLEAN, resp \in EntityResponses :
          StrategyReturns(repo, APICalls(existing, resp),
              processRepositoryAPIWithResult(repo, CreateComponent(existing, resp)),
              FALSE)

\* one register invocation: the four lookups answer as in answers, the
\* catalog answers resp
RegisterReturns(repo, answers, resp, rerun) ==
    LET look == getCatalogInfoPathAndContent(answers) IN
    StrategyReturns(repo, RegisterCalls(look, resp),
        processRepositoryRegisterWithResult(repo, look,
            RegisterCatalogLocation(repo, resp)),
        rerun)

RegisterRun(repo) ==
    /\ mode = "register"
    /\ lastCall.op = "none"
    /\ \E answers \in [1..Len(CatalogPaths) -> ContentsAnswers],
          resp \in ImportResponses :
          RegisterReturns(repo, answers, resp, FALSE)

\* the tool is run again right after a registration succeeded: the catalog
\* holds the file and does not accept it once more
RegisterRerun ==
    /\ mode = "register"
    /\ lastCall.op = "Strategy"
    /\ ~lastCall.rerun
    /\ lastCall.result.Action = "registered"
    /\ \E answers \in [1..Len(CatalogPaths) -> ContentsAnswers],
          resp \in {r \in ImportResponses : r.status # "HTTP 200"} :
          RegisterReturns(lastCall.repo, answers, resp, TRUE)

StrategyNext ==
    \/ \E repo \in CategorizeRepos : YAMLRun(repo)
    \/ \E repo \in CategorizeRepos : APIRun(repo)
    \/ \E repo \in CategorizeRepos : RegisterRun(repo)
    \/ RegisterRerun

StrategySpec == StrategyInit /\ [][StrategyNext]_vars

----------------------------------------------------------------------------
(* A run of the API mode runner over three repositories *)

ApiRunInit ==
    /\ LockIdle
    /\ mode = "api"
    /\ concurrency \in 1..MaxConcurrency
    /\ nRepos = 3
    /\ mainPc = "launch"
    /\ launched = 0
    /\ taskPc = [i \in 1..nRepos |-> "idle"]
    /\ taskResult = [i \in 1..nRepos |-> NoResult]
    /\ invocations = [i \in 1..nRepos |-> 0]
    /\ semaphore = 0
    /\ results = <<>>
    /\ summary = NewErrorSummary
    /\ runErr = NotReturned
    /\ exitStatus = -1
    /\ ledger = EmptyMap
    /\ lastRun = 0
    /\ disk = [kind |-> "missing"]
    /\ clock = 0
    /\ lastCall = [op |-> "ApiRun", calls |-> [i \in 1..nRepos |-> <<>>]]

\* result := processRepositoryAPIWithResult(ctx, r), with the calls it made
ApiFinishStrategy(i) ==
    /\ mainPc # "exited"
    /\ taskPc[i] = "running"
    /\ \E existing \in BOOLEAN, resp \in EntityResponses :
          /\ taskResult' = [taskResult EXCEPT ![i] =
                processRepositoryAPIWithResult(RepoName(i),
                    CreateComponent(existing, resp))]
          /\ lastCall' = [lastCall EXCEPT !.calls[i] = APICalls(existing, resp)]
    /\ taskPc' = [taskPc EXCEPT ![i] = "send"]
    /\ UNCHANGED <<mode, concurrency, nRepos, mainPc, launched, invocations,
                   semaphore, results, summary, runErr, exitStatus>>
    /\ UNCHANGED <<ledger, lastRun, disk, clock>>
    /\ UNCHANGED lockVars

ApiRunNext ==
    \/ Launch
    \/ StartCollect
    \/ \E i \in Tasks : Acquire(i)
    \/ \E i \in Tasks : StartStrategy(i)
    \/ \E i \in Tasks : ApiFinishStrategy(i)
    \/ \E i \in Tasks : SendResult(i)
    \/ \E i \in Tasks : Release(i)
    \/ Collect
    \/ Return
    \/ Exit

ApiRunSpec == ApiRunInit /\ [][ApiRunNext]_vars

----------------------------------------------------------------------------
(* internal/cmd/root.go: sanitizeYAMLIdentifiers on short documents *)

\* longest document, in symbols
MaxYamlLen == 5

\* the symbols of a document: the word identifier, the colon, the hyphen,
\* a blank, a line break and one other character
YamlChars == {"identifier", ":", "-", " ", "\n", "x"}

YamlDocuments == UNION { [1..n -> YamlChars] : n \in 0..MaxYamlLen }

\* strings.Index(s, c) counted from 1; 0 when c does not occur
IndexOf(s, c) ==
    IF \E i \in 1..Len(s) : s[i] = c
    THEN CHOOSE i \in 1..Len(s) : s[i] = c /\ \A j \in 1..(i - 1) : s[j] # c
    ELSE 0

\* strings.Split(s, sep) for a one-character separator
RECURSIVE Split(_, _)
Split(s, sep) ==
    LET n == IndexOf(s, sep) IN
    IF n = 0 THEN <<s>>
    ELSE <<SubSeq(s, 1, n - 1)>> \o Split(SubSeq(s, n + 1, Len(s)), sep)

\* strings.SplitN(s, sep, 2)
SplitN2(s, sep) ==
    LET n == IndexOf(s, sep) IN
    IF n = 0 THEN <<s>>
    ELSE <<SubSeq(s, 1, n - 1), SubSeq(s, n + 1, Len(s))>>

\* strings.TrimSpace(s)
RECURSIVE TrimSpace(_)
TrimSpace(s) ==
    IF s = <<>> THEN s
    ELSE IF Head(s) = " " THEN TrimSpace(Tail(s))
    ELSE IF s[Len(s)] = " " THEN TrimSpace(SubSeq(s, 1, Len(s) - 1))
    ELSE s

\* strings.HasPrefix(s, prefix)
HasPrefix(s, prefix) ==
    Len(s) >= Len(prefix) /\ SubSeq(s, 1, Len(prefix)) = prefix

\* strings.ReplaceAll(s, old, new) for one-character old and new
ReplaceAll(s, old, new) ==
    [i \in 1..Len(s) |-> IF s[i] = old THEN new ELSE s[i]]

\* strings.Join(elems, sep)
RECURSIVE Join(_, _)
Join(elems, sep) ==
    IF Len(elems) = 0 THEN <<>>
    ELSE IF Len(elems) = 1 THEN elems[1]
    ELSE elems[1] \o <<sep>> \o Join(Tail(elems), sep)

\* the loop body that writes the value part back without trimming it
sanitizeLineUntrimmed(line) ==
    IF HasPrefix(TrimSpace(line), <<"identifier", ":">>)
    THEN LET parts == SplitN2(line, ":") IN
         IF Len(parts) = 2
         THEN parts[1] \o <<":", " ">> \o ReplaceAll(parts[2], "-", "_")
         ELSE line
    ELSE line

\* the loop body of sanitizeYAMLIdentifiers for one line
sanitizeLine(line) ==
    IF HasPrefix(TrimSpace(line), <<"identifier", ":">>)
    THEN LET parts == SplitN2(line, ":") IN
         IF Len(parts) = 2
         THEN parts[1] \o <<":", " ">>
                \o ReplaceAll(TrimSpace(parts[2]), "-", "_")
         ELSE line
    ELSE line

sanitizeYAMLIdentifiers(yamlContent) ==
    LET lines == Split(yamlContent, "\n") IN
    Join([i \in 1..Len(lines) |-> sanitizeLine(lines[i])], "\n")

SanitizeInit ==
    /\ LockIdle
    /\ PipelineIdle
    /\ ledger = EmptyMap
    /\ lastRun = 0
    /\ disk = [kind |-> "missing"]
    /\ clock = 0
    /\ lastCall \in [op : {"none"}, yamlContent : YamlDocuments]

\* the document is sanitized, and the outcome is sanitized again
SanitizeCall ==
    /\ lastCall.op = "none"
    /\ LET once == sanitizeYAMLIdentifiers(lastCall.yamlContent) IN
       lastCall' = [op |-> "sanitizeYAMLIdentifiers",
                    yamlContent |-> lastCall.yamlContent,
                    ret |-> once,
                    again |-> sanitizeYAMLIdentifiers(once)]
    /\ UNCHANGED <<ledger, lastRun, disk, clock>>
    /\ UNCHANGED pipelineVars
    /\ UNCHANGED lockVars

SanitizeNext == SanitizeCall

SanitizeSpec == SanitizeInit /\ [][SanitizeNext]_vars

----------------------------------------------------------------------------
(* internal/state/manager.go: concurrent callers of one Manager, step by step *)

\* the goroutines calling the Manager
Callers == {1, 2}

\* the statements of each Manager method between its entry and its return
Steps(op) ==
    CASE op = "RecordSuccess" -> <<"Lock", "put", "save", "Unlock">>
      [] op = "RecordError" -> <<"Lock", "put", "save", "Unlock">>
      [] op = "RecordInProgress" -> <<"Lock", "get", "put", "Unlock">>
      [] op = "ShouldSkip" -> <<"RLock", "get", "RUnlock">>
      [] op = "GetStats" -> <<"RLock", "count", "RUnlock">>
      [] op = "ListProcessedRepos" -> <<"RLock", "copy", "RUnlock">>
      [] op = "CleanupOldEntries" -> <<"Lock", "delete", "save", "Unlock">>
      [] op = "ResetRepoState" -> <<"Lock", "delete", "save", "Unlock">>
      [] op = "ResetAllState" -> <<"Lock", "delete", "save", "Unlock">>
      [] op = "ExportState" -> <<"RLock", "marshal", "write", "RUnlock">>
      [] op = "ImportState" -> <<"readFile", "Lock", "assign", "save", "Unlock">>

\* the methods that take a repository name
RepoOps ==
    {"RecordSuccess", "RecordError", "RecordInProgress", "ShouldSkip",
     "ResetRepoState"}

\* the file ImportState is given: a state document, or one without the map
ImportedLedger == Put(EmptyMap, RepoName(1), RepoState(0, "", "success", EmptyString))

LockImportFiles == { MarshalState(0, ImportedLedger), [kind |-> "nomap", last_run |-> 0] }

\* the calls a caller can make: the method and its argument
Calls ==
    { [op |-> o, arg |-> r] : o \in RepoOps, r \in StoreRepos }
    \cup { [op |-> "CleanupOldEntries", arg |-> TickHours] }
    \cup { [op |-> o, arg |-> ""] :
             o \in {"ResetAllState", "GetStats", "ListProcessedRepos", "ExportState"} }
    \cup { [op |-> "ImportState", arg |-> f] : f \in LockImportFiles }

\* a caller before the first statement of its call
Entered(call) == [op |-> call.op, arg |-> call.arg, pc |-> 1, local |-> <<>>]

\* the statement caller c executes next; "return" once the call is over
StepOf(c) ==
    IF callers[c].pc > Len(Steps(callers[c].op)) THEN "return"
    ELSE Steps(callers[c].op)[callers[c].pc]

\* the error RecordError is called with
LockError == ErrorString("boom", 4)

\* the ledgers the callers find: empty, or an hour-0 entry for both repositories
LockLedgers ==
    { EmptyMap,
      [r \in StoreRepos |-> RepoState(0, "", "success", EmptyString)] }

LockInit ==
    /\ PipelineIdle
    /\ ledger \in LockLedgers
    /\ lastRun = 0
    /\ disk = MarshalState(0, ledger)
    /\ clock = 2 * TickHours
    /\ lastCall = [op |-> "none"]
    /\ mutex = RWMutex(0, {})
    /\ callers \in [Callers -> {Entered(call) : call \in Calls}]

\* caller c goes on to its next statement, or to statement pc, with local l
Goto(c, pc, l) == [callers EXCEPT ![c].pc = pc, ![c].local = l]

Advance(c, l) == Goto(c, callers[c].pc + 1, l)

\* Lock that does not wait for the holders of the mutex
LockNoWait(c) ==
    /\ StepOf(c) = "Lock"
    /\ mutex' = RWMutex(c, mutex.readers)
    /\ callers' = Advance(c, callers[c].local)
    /\ UNCHANGED <<ledger, lastRun, disk, clock, lastCall>>
    /\ UNCHANGED pipelineVars

\* m.mutex.Lock(): waits until nobody holds the mutex
Lock(c) ==
    /\ StepOf(c) = "Lock"
    /\ mutex.writer = 0
    /\ mutex.readers = {}
    /\ mutex' = RWMutex(c, {})
    /\ callers' = Advance(c, callers[c].local)
    /\ UNCHANGED <<ledger, lastRun, disk, clock, lastCall>>
    /\ UNCHANGED pipelineVars

\* m.mutex.RLock(): waits until no writer holds the mutex
RLock(c) ==
    /\ StepOf(c) = "RLock"
    /\ mutex.writer = 0
    /\ mutex' = RWMutex(0, mutex.readers \cup {c})
    /\ callers' = Advance(c, callers[c].local)
    /\ UNCHANGED <<ledger, lastRun, disk, clock, lastCall>>
    /\ UNCHANGED pipelineVars

\* defer m.mutex.Unlock()
Unlock(c) ==
    /\ StepOf(c) = "Unlock"
    /\ mutex' = RWMutex(IF mutex.writer = c THEN 0 ELSE mutex.writer, mutex.readers)
    /\ callers' = Advance(c, callers[c].local)
    /\ UNCHANGED <<ledger, lastRun, disk, clock, lastCall>>
    /\ UNCHANGED pipelineVars

\* defer m.mutex.RUnlock()
RUnlock(c) ==
    /\ StepOf(c) = "RUnlock"
    /\ mutex' = RWMutex(mutex.writer, mutex.readers \ {c})
    /\ callers' = Advance(c, callers[c].local)
    /\ UNCHANGED <<ledger, lastRun, disk, clock, lastCall>>
    /\ UNCHANGED pipelineVars

\* the entry a Record call stores
Written(op, existing) ==
    IF op = "RecordSuccess" THEN RepoState(clock, "", "success", EmptyString)
    ELSE IF op = "RecordError"
    THEN RepoState(clock, "", "error", StoredErrorMsg(LockError))
    ELSE [existing EXCEPT !.LastProcessed = clock, !.Status = "in_progress",
                          !.Error = EmptyString]

\* m.state.ProcessedRepos[repoFullName] = ...
PutStep(c) ==
    /\ StepOf(c) = "put"
    /\ ledger' = Put(ledger, callers[c].arg,
                     Written(callers[c].op, callers[c].local))
    /\ callers' = Advance(c, callers[c].local)
    /\ UNCHANGED <<lastRun, disk, clock, lastCall, mutex>>
    /\ UNCHANGED pipelineVars

\* the entries a deleting call removes
Deleted(op, arg) ==
    IF op = "ResetRepoState" THEN {arg} \cap DOMAIN ledger
    ELSE IF op = "ResetAllState" THEN DOMAIN ledger
    ELSE OldEntries(ledger, arg, clock)

\* delete(m.state.ProcessedRepos, ...), or a fresh map in ResetAllState
DeleteStep(c) ==
    /\ StepOf(c) = "delete"
    /\ LET gone == Deleted(callers[c].op, callers[c].arg) IN
          /\ ledger' = [r \in DOMAIN ledger \ gone |-> ledger[r]]
          /\ callers' = Advance(c, [cleaned |-> Cardinality(gone)])
    /\ UNCHANGED <<lastRun, disk, clock, lastCall, mutex>>
    /\ UNCHANGED pipelineVars

\* the statements that read the ledger into a local variable
ReadStep(c) ==
    /\ StepOf(c) \in {"get", "count", "copy", "marshal"}
    /\ callers' = Advance(c,
          IF StepOf(c) = "get"
          THEN IF callers[c].op = "ShouldSkip"
               THEN [ret |-> ShouldSkip(ledger, callers[c].arg, 0, clock)]
               ELSE IF callers[c].arg \in DOMAIN ledger
                    THEN ledger[callers[c].arg] ELSE ZeroRepoState
          ELSE IF StepOf(c) = "count"
          THEN [successful |-> Cardinality({r \in DOMAIN ledger :
                                               ledger[r].Status = "success"}),
                failed |-> Cardinality({r \in DOMAIN ledger :
                                           ledger[r].Status = "error"}),
                inProgress |-> Cardinality({r \in DOMAIN ledger :
                                               ledger[r].Status = "in_progress"}),
                lastRun |-> lastRun]
          ELSE IF StepOf(c) = "copy" THEN ledger
          ELSE MarshalState(lastRun, ledger))
    /\ UNCHANGED <<ledger, lastRun, disk, clock, lastCall, mutex>>
    /\ UNCHANGED pipelineVars

\* file input and output that does not touch the state file: ImportState
\* reads and parses its file, ExportState writes its file
FileStep(c) ==
    /\ StepOf(c) \in {"readFile", "write"}
    /\ callers' = Advance(c,
          IF StepOf(c) = "readFile" THEN callers[c].arg ELSE callers[c].local)
    /\ UNCHANGED <<ledger, lastRun, disk, clock, lastCall, mutex>>
    /\ UNCHANGED pipelineVars

\* ImportState under the lock: a file without processed_repos is an error
\* and the method returns; otherwise m.state = importedState
AssignStep(c) ==
    /\ StepOf(c) = "assign"
    /\ IF callers[c].local.kind = "nomap"
       THEN /\ callers' = Goto(c, 5, callers[c].local)
            /\ UNCHANGED <<ledger, lastRun>>
       ELSE /\ ledger' = loadState(callers[c].local).repos
            /\ lastRun' = callers[c].local.last_run
            /\ callers' = Advance(c, callers[c].local)
    /\ UNCHANGED <<disk, clock, lastCall, mutex>>
    /\ UNCHANGED pipelineVars

\* a save through saveState, which locks the mutex itself
SaveLocking(c) ==
    /\ StepOf(c) = "save"
    /\ mutex.writer = 0
    /\ mutex.readers = {}
    /\ lastRun' = clock
    /\ disk' = MarshalState(clock, ledger)
    /\ callers' = Advance(c, callers[c].local)
    /\ UNCHANGED <<ledger, clock, lastCall, mutex>>
    /\ UNCHANGED pipelineVars

\* saveStateUnsafe, called with the mutex held; CleanupOldEntries calls it
\* only when it deleted something
Save(c) ==
    /\ StepOf(c) = "save"
    /\ IF callers[c].op = "CleanupOldEntries" /\ callers[c].local.cleaned = 0
       THEN UNCHANGED <<lastRun, disk>>
       ELSE /\ lastRun' = clock
            /\ disk' = MarshalState(clock, ledger)
    /\ callers' = Advance(c, callers[c].local)
    /\ UNCHANGED <<ledger, clock, lastCall, mutex>>
    /\ UNCHANGED pipelineVars

CallerStep(c) ==
    \/ Lock(c)
    \/ RLock(c)
    \/ Unlock(c)
    \/ RUnlock(c)
    \/ PutStep(c)
    \/ DeleteStep(c)
    \/ ReadStep(c)
    \/ FileStep(c)
    \/ AssignStep(c)
    \/ Save(c)

LockNext ==
    \/ \E c \in Callers : Lock(c)
    \/ \E c \in Callers : RLock(c)
    \/ \E c \in Callers : Unlock(c)
    \/ \E c \in Callers : RUnlock(c)
    \/ \E c \in Callers : PutStep(c)
    \/ \E c \in Callers : DeleteStep(c)
    \/ \E c \in Callers : ReadStep(c)
    \/ \E c \in Callers : FileStep(c)
    \/ \E c \in Callers : AssignStep(c)
    \/ \E c \in Callers : Save(c)

LockSpec == LockInit /\ [][LockNext]_vars

\* every goroutine that can take a step eventually takes it
FairLockSpec ==
    /\ LockSpec
    /\ \A c \in Callers : WF_vars(CallerStep(c))

----------------------------------------------------------------------------
(* internal/state/manager.go: ImportState on whatever the import file holds *)

\* ImportState that decodes the file straight into m.state
importStateInPlace(repos, run, file) ==
    IF file.kind \in {"missing", "unreadable"}
    THEN [err |-> RawError(<<"failed to read import file">>),
          repos |-> repos, lastRun |-> run, save |-> FALSE]
    ELSE IF file.kind \in {"empty", "partial"}
    THEN [err |-> RawError(<<"failed to unmarshal imported state">>),
          repos |-> repos, lastRun |-> run, save |-> FALSE]
    ELSE IF file.kind = "badtype"
    THEN [err |-> RawError(<<"failed to unmarshal imported state">>),
          repos |-> loadState(file).repos, lastRun |-> file.last_run,
          save |-> FALSE]
    ELSE IF file.kind = "nomap"
    THEN [err |-> RawError(<<"invalid state file: missing processed_repos">>),
          repos |-> repos, lastRun |-> run, save |-> FALSE]
    ELSE [err |-> NoError, repos |-> loadState(file).repos,
          lastRun |-> file.last_run, save |-> TRUE]

\* ImportState up to the save: the error it returns before saving, the state
\* it leaves in m.state, and whether it goes on to save. The file is decoded
\* into a local variable, which replaces m.state only when it holds a map
importState(repos, run, file) ==
    IF file.kind \in {"missing", "unreadable"}
    THEN [err |-> RawError(<<"failed to read import file">>),
          repos |-> repos, lastRun |-> run, save |-> FALSE]
    ELSE IF file.kind \in {"empty", "partial", "badtype"}
    THEN [err |-> RawError(<<"failed to unmarshal imported state">>),
          repos |-> repos, lastRun |-> run, save |-> FALSE]
    ELSE IF file.kind = "nomap"
    THEN [err |-> RawError(<<"invalid state file: missing processed_repos">>),
          repos |-> repos, lastRun |-> run, save |-> FALSE]
    ELSE [err |-> NoError, repos |-> loadState(file).repos,
          lastRun |-> file.last_run, save |-> TRUE]

\* Manager.ImportState(filePath): the error of saveStateUnsafe is returned
ImportState(file, outcome) ==
    /\ LET imported == importState(ledger, lastRun, file) IN
          /\ ledger' = imported.repos
          /\ IF imported.save
             THEN SaveStateUnsafe(ledger', outcome)
             ELSE lastRun' = imported.lastRun /\ UNCHANGED disk
          /\ lastCall' = [op |-> "ImportState", file |-> file, before |-> ledger,
                          err |-> IF imported.save /\ outcome # "ok"
                                  THEN RawError(<<"failed to write state file">>)
                                  ELSE imported.err]
    /\ UNCHANGED clock
    /\ UNCHANGED pipelineVars
    /\ UNCHANGED lockVars

ImportInit ==
    /\ PipelineIdle
    /\ LockIdle
    /\ ledger \in LoadEntries \cup {EmptyMap}
    /\ lastRun = 0
    /\ disk = MarshalState(0, ledger)
    /\ clock = TickHours
    /\ lastCall = [op |-> "none"]

ImportNext ==
    \E file \in LoadFiles, outcome \in WriteOutcomes : ImportState(file, outcome)

ImportSpec == ImportInit /\ [][ImportNext]_vars

----------------------------------------------------------------------------
(* Properties *)

Returned == mainPc \in {"returned", "exited"}

\* number of results for a repository in a sequence of results
CountFor(seq, repo) ==
    Cardinality({k \in 1..Len(seq) : seq[k].Repository = repo})

\* C1: at every moment at most C tasks are between acquiring a semaphore
\* slot and releasing it, hence at most C Strategy invocations are in progress.
C1_AtMostCAdmitted ==
    /\ Cardinality(Holders) <= concurrency
    /\ Cardinality(Running) <= concurrency

\* the semaphore is full, a Strategy runs and another task waits for a slot
C1_Witness ==
    /\ Cardinality(Holders) = concurrency
    /\ Running # {}
    /\ \E i \in Tasks : taskPc[i] = "acquire"

\* C2: provided every Strategy invocation returns, the run terminates: the
\* caller collects exactly N results and returns; a task that is about to
\* write its result always finds room in the results channel.
C2_RunTerminates ==
    /\ [](\A i \in Tasks : taskPc[i] = "send" => Len(results) < nRepos)
    /\ [](Returned => Len(summary.Results) = nRepos)
    /\ <>(Returned /\ Len(summary.Results) = nRepos)

\* the runner returned from a run in which one task failed and another succeeded
C2_Witness ==
    /\ mainPc = "returned"
    /\ nRepos >= 2
    /\ \E j, k \in 1..Len(summary.Results) :
          /\ summary.Results[j].Action = "failed"
          /\ summary.Results[k].Success

C4_LedgerReflectsRun ==
    Returned =>
       \A k \in 1..Len(summary.Results) :
          LET res == summary.Results[k] IN
          /\ res.Repository \in DOMAIN ledger
          /\ ledger[res.Repository].Status =
                (IF res.Error = NoError THEN "success" ELSE "error")

\* the entry ShouldSkip looked at
CalledEntry == ledger[lastCall.repo]

SkipCalledOn(status) ==
    /\ lastCall.op = "ShouldSkip"
    /\ lastCall.repo \in DOMAIN ledger
    /\ CalledEntry.Status = status

\* C5: for an entry with status error recorded at T, ShouldSkip returns true
\* exactly when now - T < 24 hours, whatever the freshness signal.
C5_ErrorWindow ==
    SkipCalledOn("error") =>
       (lastCall.ret <=> clock - CalledEntry.LastProcessed < 24)

\* an error entry exactly 24 hours old, pushed after T: not skipped
C5_Witness ==
    /\ SkipCalledOn("error")
    /\ clock - CalledEntry.LastProcessed = 24
    /\ lastCall.lastPushed > CalledEntry.LastProcessed
    /\ ~lastCall.ret

\* C6: for an entry with status success recorded at T, ShouldSkip returns
\* false when the freshness signal is strictly later than T, and otherwise
\* returns true exactly when now - T < 7 days.
C6_SuccessWindow ==
    SkipCalledOn("success") =>
       IF lastCall.lastPushed > CalledEntry.LastProcessed
       THEN ~lastCall.ret
       ELSE (lastCall.ret <=> clock - CalledEntry.LastProcessed < 168)

\* a success entry pushed exactly at T and 167 hours old: skipped
C6_Witness ==
    /\ SkipCalledOn("success")
    /\ lastCall.lastPushed = CalledEntry.LastProcessed
    /\ clock - CalledEntry.LastProcessed = 167
    /\ lastCall.ret

\* C7: ShouldSkip returns false for a repository without an entry and for
\* one whose entry is in_progress, at every age and freshness signal.
C7_NoEntryOrInProgress ==
    (lastCall.op = "ShouldSkip"
       /\ (lastCall.repo \notin DOMAIN ledger
             \/ CalledEntry.Status = "in_progress"))
    => ~lastCall.ret

\* a fresh in_progress entry not pushed since: not skipped
C7_Witness ==
    /\ SkipCalledOn("in_progress")
    /\ clock - CalledEntry.LastProcessed < 24
    /\ lastCall.lastPushed <= CalledEntry.LastProcessed
    /\ ~lastCall.ret

\* C8: after RecordInProgress, RecordSuccess or RecordError returns without
\* a failed write, the ledger a new Manager loads from the file equals the
\* ledger in memory.
C8_DurableEqualsMemory ==
    (lastCall.op \in {"RecordInProgress", "RecordSuccess", "RecordError"}
       /\ lastCall.saved)
    => LoadedRepos(disk) = ledger

\* the collecting loop of a mode runner applied to results arriving as seq
RECURSIVE AddAll(_, _)
AddAll(s, seq) ==
    IF seq = <<>> THEN s
    ELSE AddAll(AddResult(s, Head(seq)), Tail(seq))

\* sum of the counters of a Go map
RECURSIVE SumMap(_)
SumMap(m) ==
    IF DOMAIN m = {} THEN 0
    ELSE LET k == CHOOSE x \in DOMAIN m : TRUE
         IN m[k] + SumMap([x \in DOMAIN m \ {k} |-> m[x]])

\* positions of the added results that carry an error
WithError == {k \in 1..Len(summary.Results) : summary.Results[k].Error # NoError}

\* C9: Total is the number of added results with an error, Recoverable the
\* number of those that are recoverable, and the per-category and per-type
\* counters count the errors of their key and each sum to Total.
C9_SummaryCounts ==
    /\ summary.Total = Cardinality(WithError)
    /\ summary.Recoverable =
          Cardinality({k \in WithError : summary.Results[k].Error.Recoverable})
    /\ SumMap(summary.ByCategory) = summary.Total
    /\ SumMap(summary.ByType) = summary.Total
    /\ \A c \in DOMAIN summary.ByCategory : summary.ByCategory[c] =
          Cardinality({k \in WithError : summary.Results[k].Error.Category = c})
    /\ \A t \in DOMAIN summary.ByType : summary.ByType[t] =
          Cardinality({k \in WithError : summary.Results[k].Error.Type = t})

\* three results added: one skipped without error, two with errors of two
\* different types, one of them recoverable
C9_Witness ==
    /\ Len(summary.Results) = 3
    /\ summary.Total = 2
    /\ summary.Recoverable = 1
    /\ \E k \in 1..3 : /\ summary.Results[k].Skipped
                       /\ summary.Results[k].Error = NoError
    /\ Cardinality(DOMAIN summary.ByType) = 2

\* C10: the runner returns only after all N results were collected; it
\* returns nil (exit status 0) exactly when Total is 0, an error (exit
\* status 1) otherwise.
C10_RunStatus ==
    /\ ~Returned => runErr = NotReturned
    /\ Returned => /\ Len(summary.Results) = nRepos
                   /\ runErr # NotReturned
                   /\ (runErr = NoError <=> summary.Total = 0)
    /\ mainPc = "exited" => (exitStatus = 0 <=> summary.Total = 0)
    /\ mainPc = "exited" => exitStatus \in {0, 1}

\* the process exited with status 1 although one repository succeeded
C10_Witness ==
    /\ mainPc = "exited"
    /\ exitStatus = 1
    /\ \E k \in 1..Len(summary.Results) : summary.Results[k].Success

\* the results of the summary in the arrival order p
Reordered(p) == [k \in 1..Len(summary.Results) |-> summary.Results[p[k]]]

\* C11: for every arrival order of the results that were added, the
\* collecting loop ends with the same total, recoverable count, per-category
\* and per-type counters and run status; the stored list holds the same
\* results in the arrival order.
C11_OrderIndependent ==
    \A p \in Permutations(1..Len(summary.Results)) :
       LET other == AddAll(NewErrorSummary, Reordered(p)) IN
       /\ other.Total = summary.Total
       /\ other.Recoverable = summary.Recoverable
       /\ other.ByCategory = summary.ByCategory
       /\ other.ByType = summary.ByType
       /\ RunnerError(other, mode) = RunnerError(summary, mode)
       /\ other.Results = Reordered(p)

\* three results were added, the first without error, then two errors of
\* different types: another arrival order stores a different list
C11_Witness ==
    /\ Len(summary.Results) = 3
    /\ summary.Results[1].Error = NoError
    /\ summary.Results[2].Error # NoError
    /\ summary.Results[3].Error # NoError
    /\ summary.Results[2].Error.Type # summary.Results[3].Error.Type

\* the classification rules in their priority order: the patterns of a rule
\* and whether all of them or any of them must occur in the message
Rules ==
    << [pats |-> {"404", "not found"}, all |-> TRUE,
        Category |-> "REPOSITORY", Type |-> "REPOSITORY_NOT_FOUND"],
       [pats |-> {"403", "forbidden"}, all |-> TRUE,
        Category |-> "AUTHENTICATION", Type |-> "FORBIDDEN"],
       [pats |-> {"401", "unauthorized"}, all |-> TRUE,
        Category |-> "AUTHENTICATION", Type |-> "UNAUTHORIZED"],
       [pats |-> {"429", "rate limit"}, all |-> FALSE,
        Category |-> "NETWORK", Type |-> "RATE_LIMIT"],
       [pats |-> {"duplicate_file_import", "already been imported"}, all |-> FALSE,
        Category |-> "ENTITY", Type |-> "ENTITY_ALREADY_REGISTERED"],
       [pats |-> {"already exists", "duplicate"}, all |-> FALSE,
        Category |-> "ENTITY", Type |-> "ENTITY_EXISTS"],
       [pats |-> {"catalog-info.yaml", "not found"}, all |-> TRUE,
        Category |-> "REPOSITORY", Type |-> "CATALOG_FILE_NOT_FOUND"],
       [pats |-> {"pull request", "already"}, all |-> TRUE,
        Category |-> "PULL_REQUEST", Type |-> "PR_EXISTS"] >>

\* rule k matches the lower-cased message
Matches(k, msg) ==
    IF Rules[k].all
    THEN \A pat \in Rules[k].pats : Contains(LowerText(msg), pat)
    ELSE \E pat \in Rules[k].pats : Contains(LowerText(msg), pat)

\* the rules that match a message
Matching(msg) == {k \in 1..Len(Rules) : Matches(k, msg)}

\* category and type of the first matching rule, Unknown/Unknown without one
FirstMatch(msg) ==
    IF Matching(msg) = {}
    THEN [Category |-> "UNKNOWN", Type |-> "UNKNOWN"]
    ELSE LET k == CHOOSE x \in Matching(msg) : \A y \in Matching(msg) : x <= y
         IN [Category |-> Rules[k].Category, Type |-> Rules[k].Type]

\* CategorizeError was called on an error that is not a ProcessingError
CategorizedRaw ==
    /\ lastCall.op = "CategorizeError"
    /\ lastCall.err.kind = "raw"

\* C12: for a raw error CategorizeError returns one ProcessingError whose
\* category and type are those of the first rule, in the fixed order, that
\* matches the lower-cased message, and Unknown/Unknown when none matches; a
\* message that reaches the entity rules and matches both the
\* already-registered and the already-exists patterns is classified
\* ENTITY / ENTITY_ALREADY_REGISTERED.
C12_FirstRuleWins ==
    CategorizedRaw =>
       LET msg == lastCall.err.Message
           ret == lastCall.ret
       IN /\ IsProcessingError(ret)
          /\ [Category |-> ret.Category, Type |-> ret.Type] = FirstMatch(msg)
          /\ ({5, 6} \subseteq Matching(msg) /\ Matching(msg) \cap 1..4 = {})
                => /\ ret.Category = "ENTITY"
                   /\ ret.Type = "ENTITY_ALREADY_REGISTERED"

\* an upper-case DUPLICATE_FILE_IMPORT answer, which also holds "duplicate",
\* was classified as already registered
C12_Witness ==
    /\ CategorizedRaw
    /\ lastCall.err.Message = <<"HTTP 500", "DUPLICATE_FILE_IMPORT">>
    /\ {5, 6} \subseteq Matching(lastCall.err.Message)
    /\ lastCall.ret.Type = "ENTITY_ALREADY_REGISTERED"

\* C13: a ProcessingError handed to CategorizeError comes back with every
\* field unchanged except an empty repository, which is set to the given
\* one; and CategorizeError applied to its own result with the same
\* repository returns that result, for structured and raw errors alike.
C13_Idempotent ==
    lastCall.op = "CategorizeError" =>
       /\ IsProcessingError(lastCall.err) =>
             lastCall.ret =
                [lastCall.err EXCEPT !.Repository =
                    IF lastCall.err.Repository = "" THEN lastCall.repo
                    ELSE lastCall.err.Repository]
       /\ lastCall.again => lastCall.ret = lastCall.err

\* C14: the ProcessingError returned for a raw error is recoverable exactly
\* when it is classified NETWORK / RATE_LIMIT, which is exactly when the
\* rate-limit rule is the first that matches.
C14_OnlyRateLimitRecoverable ==
    CategorizedRaw =>
       LET ret == lastCall.ret IN
       /\ ret.Recoverable <=> (ret.Category = "NETWORK" /\ ret.Type = "RATE_LIMIT")
       /\ ret.Recoverable <=>
             (4 \in Matching(lastCall.err.Message)
                /\ Matching(lastCall.err.Message) \cap 1..3 = {})

\* a rate-limit text that also says "already exists" came back recoverable
C14_Witness ==
    /\ CategorizedRaw
    /\ lastCall.err.Message = <<"API rate limit exceeded", "Entity Already Exists">>
    /\ lastCall.ret.Recoverable

StrategyRan == lastCall.op = "Strategy"

\* positions in the call log of the calls named in names
CallsTo(names) ==
    {k \in 1..Len(lastCall.calls) : lastCall.calls[k].name \in names}

\* positions of the calls that failed for another reason than not-found or
\* one of the already-exists answers
FailedCalls ==
    {k \in 1..Len(lastCall.calls) : lastCall.calls[k].answer = "error"}

\* C15: when a collaborator call of a Strategy fails for a reason other
\* than the graceful-skip answers (pull request exists, manifest missing,
\* entity exists or registered), lookups and checks included, the result is
\* failed and carries a ProcessingError.
C15_FailuresAreFailed ==
    (StrategyRan /\ FailedCalls # {}) =>
       /\ lastCall.result.Action = "failed"
       /\ ~lastCall.result.Skipped
       /\ lastCall.result.Error # NoError
       /\ IsProcessingError(lastCall.result.Error)

\* every candidate path was looked up and answered not-found
NoManifestAnywhere ==
    /\ StrategyRan
    /\ mode = "register"
    /\ Len(lastCall.calls) >= Len(CatalogPaths)
    /\ \A k \in 1..Len(CatalogPaths) :
          lastCall.calls[k] = Call("GetContents", "not_found")

\* C16: in register mode, when all four candidate paths answer not-found,
\* the result is skipped with success and without error, no registration
\* request is sent, and the summary total stays 0.
C16_NoManifestSkipped ==
    NoManifestAnywhere =>
       /\ lastCall.result.Action = "skipped"
       /\ lastCall.result.Skipped
       /\ lastCall.result.Success
       /\ lastCall.result.Error = NoError
       /\ CallsTo({"RegisterCatalogLocation"}) = {}
       /\ Len(summary.Results) = 1
       /\ summary.Total = 0

\* a register run that asked for the four paths and found no manifest
C16_Witness ==
    /\ NoManifestAnywhere
    /\ Len(lastCall.calls) = 4
    /\ lastCall.result.Message = "No catalog-info.yaml found"

\* the run after a successful registration was told "already imported"
RerunAlreadyImported ==
    /\ StrategyRan
    /\ lastCall.rerun
    /\ \E k \in CallsTo({"RegisterCatalogLocation"}) :
          lastCall.calls[k].answer = "exists"

\* C17: when register mode is run again right after a successful
\* registration and the catalog answers that the file has already been
\* imported, the error is ENTITY / ENTITY_ALREADY_REGISTERED and the result
\* is skipped, not failed.
C17_RerunSkipped ==
    RerunAlreadyImported =>
       /\ lastCall.result.Error # NoError
       /\ lastCall.result.Error.Category = "ENTITY"
       /\ lastCall.result.Error.Type = "ENTITY_ALREADY_REGISTERED"
       /\ lastCall.result.Action = "skipped"
       /\ lastCall.result.Skipped

\* the second run found the manifest at the third path and was skipped
C17_Witness ==
    /\ RerunAlreadyImported
    /\ Len(lastCall.calls) = 4
    /\ lastCall.result.Skipped
    /\ summary.Total = 1

YAMLRan == StrategyRan /\ mode = "yaml"

\* the open-pull-request check found an onboarding pull request
OpenPRFound ==
    /\ YAMLRan
    /\ lastCall.calls[1] = Call("CheckForExistingOnboardingPR", "found")

\* C19: in yaml mode every write call (branch, file, pull request) comes
\* after both the open-pull-request check and the manifest lookup of the
\* Strategy returned; when an open onboarding pull request is found the
\* result is skipped and the call log holds no write call.
C19_ChecksBeforeWrites ==
    YAMLRan =>
       /\ \A w \in CallsTo(WriteCalls) :
             /\ \E c \in CallsTo({"CheckForExistingOnboardingPR"}) : c < w
             /\ \E c \in CallsTo({"GetCatalogInfo"}) : c < w
       /\ OpenPRFound =>
             /\ lastCall.result.Action = "skipped"
             /\ lastCall.result.Skipped
             /\ CallsTo(WriteCalls \cup {"CreatePR"}) = {}

\* a run that wrote a branch, a file and a pull request after both checks
C19_Witness ==
    /\ YAMLRan
    /\ lastCall.result.Action = "created"
    /\ CallsTo({"CreateRef"}) # {}
    /\ CallsTo({"CreateFile"}) # {}
    /\ CallsTo({"PullRequests.Create"}) # {}

\* the answer the call log holds for a collaborator, "" when it was not called
AnswerTo(name) ==
    IF CallsTo({name}) = {} THEN ""
    ELSE lastCall.calls[CHOOSE k \in CallsTo({name}) : TRUE].answer

\* C20: in yaml mode without an open onboarding pull request, the result is
\* skipped when a manifest and the catalog entity both exist; in every
\* other case, a manifest without catalog entity included, the manifest is
\* built and handed to CreatePR (unless building it fails).
C20_SkipOnlyWhenBothExist ==
    (YAMLRan /\ ~OpenPRFound) =>
       IF AnswerTo("GetCatalogInfo") = "found" /\ AnswerTo("GetComponent") = "found"
       THEN lastCall.result.Action = "skipped"
       ELSE \/ CallsTo({"CreatePR"}) # {}
            \/ lastCall.result.Message = "YAML generation failed"

\* tasks of the API run whose POST of the entity was rejected as existing
ToldExists ==
    {i \in Tasks : /\ Len(lastCall.calls[i]) = 2
                   /\ lastCall.calls[i][2] = Call("CreateEntity", "exists")}

\* tasks of the API run whose entity was created or updated
Succeeded ==
    {i \in Tasks : /\ Len(lastCall.calls[i]) = 2
                   /\ lastCall.calls[i][2].answer = "ok"}

\* number of collected results with the given action
ActionCount(action) ==
    Cardinality({k \in 1..Len(summary.Results) :
                    summary.Results[k].Action = action})

C21_DryRunDoesNothing ==
    (lastCall.op = "runOnboarder" /\ lastCall.DryRun) =>
        /\ mainPc \in {"returned", "exited"}
        /\ lastCall.discovered => runErr = NoError
        /\ launched = 0
        /\ semaphore = 0
        /\ results = <<>>
        /\ \A i \in 1..nRepos : taskPc[i] = "idle" /\ invocations[i] = 0
        /\ ledger = EmptyMap
        /\ disk = [kind |-> "missing"]
        /\ mainPc = "exited" /\ lastCall.discovered => exitStatus = 0

\* a dry run over two discovered repositories in an unsupported mode has exited
C21_Witness ==
    /\ lastCall.op = "runOnboarder"
    /\ lastCall.DryRun
    /\ lastCall.discovered
    /\ nRepos = 2
    /\ mode \notin Modes
    /\ mainPc = "exited"
    /\ exitStatus = 0

\* C22: after RecordError the message stored for the repository, in memory
\* and in the file, has at most MaxErrorLen characters
C22_StoredMessageBounded ==
    /\ \A r \in DOMAIN ledger : ledger[r].Error.len <= MaxErrorLen
    /\ disk.kind = "json" =>
          \A r \in DOMAIN disk.processed_repos :
              "error" \in DOMAIN disk.processed_repos[r] =>
                  disk.processed_repos[r].error.len <= MaxErrorLen

\* the state file holds nothing NewManager can load
Unloadable == disk.kind \in {"missing", "empty", "unreadable", "partial", "badtype"}

\* C23: on a missing, empty, unreadable or invalid state file NewManager
\* returns no error and an empty ledger, and ShouldSkip then answers false for
\* every repository and freshness signal
C23_LoadFailureStartsEmpty ==
    (Unloadable /\ lastCall.op # "none") =>
        /\ ledger = EmptyMap
        /\ lastCall.op = "NewManager" => lastCall.err = NoError
        /\ lastCall.op = "ShouldSkip" => ~lastCall.ret

\* ShouldSkip was asked about the repository whose recent success entry was
\* decoded before json.Unmarshal reported a value of the wrong type
C23_Witness ==
    /\ disk.kind = "badtype"
    /\ RepoName(1) \in DOMAIN disk.processed_repos
    /\ disk.processed_repos[RepoName(1)].status = "success"
    /\ lastCall.op = "ShouldSkip"
    /\ lastCall.repo = RepoName(1)
    /\ lastCall.lastPushed = 0
    /\ ~lastCall.ret

\* the Manager calls that change the ledger and write the file
WritingCalls ==
    {"RecordSuccess", "RecordError", "ResetRepoState", "ResetAllState",
     "CleanupOldEntries"}

\* C24: a RecordSuccess, RecordError, ResetRepoState, ResetAllState or
\* CleanupOldEntries whose write failed leaves the state file with the
\* content it had before the call, and one whose write succeeded leaves in
\* the file the ledger held in memory
C24_FailedWriteKeepsFile ==
    [][ lastCall'.op \in WritingCalls =>
           IF lastCall'.saved
           THEN LoadedRepos(disk') = ledger'
           ELSE disk' = disk ]_vars

\* C25: sanitizing a sanitized document changes nothing
C25_SanitizeIdempotent ==
    lastCall.op = "sanitizeYAMLIdentifiers" => lastCall.again = lastCall.ret

\* a two-line document whose identifier line had a hyphen as its value was
\* rewritten, and sanitizing the outcome left it alone
C25_Witness ==
    /\ lastCall.op = "sanitizeYAMLIdentifiers"
    /\ lastCall.yamlContent = <<"x", "\n", "identifier", ":", "-">>
    /\ lastCall.ret = <<"x", "\n", "identifier", ":", " ", "_">>
    /\ lastCall.again = lastCall.ret

\* the steps of a task goroutine, in the order of its code
TaskOrder ==
    { <<"idle", "acquire">>, <<"acquire", "sleep">>, <<"sleep", "running">>,
      <<"running", "send">>, <<"send", "release">>, <<"release", "done">> }

\* every step of task i is the next one of TaskOrder; the slot is taken by the
\* step acquire and given back by the step release and by no other step; the
\* Strategy is entered by the step that ends the delay and by no other step
TaskStepInOrder(i) ==
    /\ taskPc'[i] # taskPc[i] =>
          /\ <<taskPc[i], taskPc'[i]>> \in TaskOrder
          /\ semaphore' =
                IF taskPc[i] = "acquire" THEN semaphore + 1
                ELSE IF taskPc[i] = "release" THEN semaphore - 1
                ELSE semaphore
          /\ taskPc[i] = "acquire" => semaphore < concurrency
    /\ invocations'[i] # invocations[i] =>
          /\ taskPc[i] = "sleep"
          /\ taskPc'[i] = "running"
          /\ i \in Holders

\* the slots taken are those of the tasks between acquire and release
SlotsAreHeld == semaphore = Cardinality(Holders)

\* C26 as stated: the steps of each task follow the order acquire, delay,
\* Strategy, result, release; the Strategy is entered only by a task that
\* holds a slot and has waited; every admitted task releases its slot once,
\* so that in the end no task holds a slot
C26_EveryTaskReleases ==
    /\ [][\A i \in Tasks : TaskStepInOrder(i)]_vars
    /\ []SlotsAreHeld
    /\ <>[](Holders = {})

\* C26, amended: the steps of each task follow the order acquire, delay,
\* Strategy, result, release; the Strategy is entered only by a task that
\* holds a slot and has waited; every admitted task releases its slot at most
\* once, whatever its result, and exactly once unless the process exits
\* first, which happens only after the task has written its result: in the
\* end no task holds a slot or the process has exited
C26_ReleasesUnlessExited ==
    /\ [][\A i \in Tasks : TaskStepInOrder(i)]_vars
    /\ []SlotsAreHeld
    /\ [](mainPc = "exited" => \A i \in Tasks : taskPc[i] \in {"release", "done"})
    /\ <>[](Holders = {} \/ mainPc = "exited")

\* a task whose result is failed has released its slot while the other task
\* still holds one
C26_Witness ==
    /\ nRepos = 2
    /\ \E i, j \in Tasks :
          /\ taskPc[i] = "done"
          /\ taskResult[i].Action = "failed"
          /\ taskPc[j] = "running"
          /\ semaphore = 1

\* the administrative methods of the Manager
AdminOps ==
    {"GetStats", "ListProcessedRepos", "ResetRepoState", "ResetAllState",
     "CleanupOldEntries", "ExportState", "ImportState"}

\* caller c has executed the first statement of its call and not yet the last
Inside(c) == 1 < callers[c].pc /\ callers[c].pc <= Len(Steps(callers[c].op))

\* C27 as stated: every administrative method holds the mutex for writing
\* from its first statement to its last, file input and output included
C27_AdminHoldsExclusiveLock ==
    \A c \in DOMAIN callers :
        (callers[c].op \in AdminOps /\ Inside(c)) => mutex.writer = c

\* C27, amended: ResetRepoState, ResetAllState and CleanupOldEntries hold the
\* mutex for writing from their first statement to their last, the write of
\* the state file included; ImportState reads and parses its file without the
\* mutex and holds it for writing from then on; GetStats, ListProcessedRepos
\* and ExportState hold it for reading, ExportState's file write included, so
\* they exclude the writers and not one another
C27_AdminHoldsItsLock ==
    /\ mutex.writer # 0 => mutex.readers = {}
    /\ \A c \in DOMAIN callers :
          Inside(c) =>
             CASE callers[c].op \in {"ResetRepoState", "ResetAllState",
                                     "CleanupOldEntries"} -> mutex.writer = c
               [] callers[c].op = "ImportState" ->
                     (callers[c].pc > 2 => mutex.writer = c)
               [] callers[c].op \in {"GetStats", "ListProcessedRepos",
                                     "ExportState"} ->
                     c \in mutex.readers /\ mutex.writer = 0
               [] OTHER -> TRUE

\* ExportState is writing its file while GetStats counts, both holding the
\* mutex for reading
C27_Witness ==
    /\ DOMAIN callers = Callers
    /\ callers[1].op = "ExportState"
    /\ StepOf(1) = "write"
    /\ callers[2].op = "GetStats"
    /\ StepOf(2) = "count"
    /\ mutex.readers = {1, 2}

\* the calls whose interleavings C28 is about
InterleavedOps ==
    {"RecordSuccess", "RecordError", "RecordInProgress", "ResetRepoState",
     "CleanupOldEntries", "ShouldSkip"}

RecordOps == {"RecordSuccess", "RecordError", "RecordInProgress"}

\* every caller makes one of those calls
Interleaved ==
    /\ DOMAIN callers = Callers
    /\ \A c \in Callers : callers[c].op \in InterleavedOps

AllReturned == \A c \in Callers : StepOf(c) = "return"

\* the other callers that write or delete the entry caller c records
Rivals(c) ==
    {d \in Callers \ {c} :
        /\ callers[d].op \in RecordOps \cup {"ResetRepoState"}
        /\ callers[d].arg = callers[c].arg}

\* the complete entries a Record call can leave (LastCommit is always empty)
FullWrites(op) ==
    {Written(op, existing) : existing \in {ZeroRepoState} \cup
        {RepoState(t, "", st, e) : t \in {0, clock}, st \in Statuses,
                                   e \in {EmptyString, LockError}}}

\* once all calls have returned: the entry of a Record call nobody else
\* touched is the one it wrote, and the entry two Record calls wrote is the
\* complete entry of one of them
EntriesKept ==
    \A c \in Callers :
       callers[c].op \in RecordOps =>
          /\ Rivals(c) = {} =>
                /\ callers[c].arg \in DOMAIN ledger
                /\ ledger[callers[c].arg] \in FullWrites(callers[c].op)
          /\ \A d \in Rivals(c) :
                callers[d].op \in RecordOps =>
                   /\ callers[c].arg \in DOMAIN ledger
                   /\ ledger[callers[c].arg] \in
                         FullWrites(callers[c].op) \cup FullWrites(callers[d].op)

\* a caller waiting for the mutex does not hold it already, and the mutex
\* has a writer or readers, never both
NoDoubleLock ==
    /\ mutex.writer # 0 => mutex.readers = {}
    /\ \A c \in DOMAIN callers :
          StepOf(c) \in {"Lock", "RLock"} =>
             mutex.writer # c /\ c \notin mutex.readers

\* C28: every interleaving of concurrent RecordSuccess, RecordError,
\* RecordInProgress, ResetRepoState, CleanupOldEntries and ShouldSkip calls
\* runs to the end, no caller locks the mutex twice, calls on different
\* repositories keep each other's entries, and Record calls on one
\* repository leave the complete entry of one of them
C28_InterleavingsComplete ==
    /\ Interleaved ~> AllReturned
    /\ [](Interleaved => NoDoubleLock)
    /\ []((Interleaved /\ AllReturned) => EntriesKept)

\* RecordError and RecordInProgress ran together on one repository, and the
\* ledger holds the in-progress entry written last
C28_Witness ==
    /\ Interleaved
    /\ AllReturned
    /\ callers[1].op = "RecordError"
    /\ callers[2].op = "RecordInProgress"
    /\ callers[1].arg = RepoName(1)
    /\ callers[2].arg = RepoName(1)
    /\ ledger[RepoName(1)].Status = "in_progress"
    /\ disk.processed_repos[RepoName(1)].status = "error"

\* the values of ProcessingResult.Action
Actions == {"created", "updated", "registered", "skipped", "failed"}

\* C29: every result of a Strategy has Success exactly when it has no error,
\* Skipped exactly when its action is skipped, an error when its action is
\* failed, and an action among created, updated, registered, skipped, failed
C29_ResultWellFormed ==
    StrategyRan =>
        /\ lastCall.result.Success <=> lastCall.result.Error = NoError
        /\ lastCall.result.Skipped <=> lastCall.result.Action = "skipped"
        /\ lastCall.result.Action = "failed" => lastCall.result.Error # NoError
        /\ lastCall.result.Action \in Actions

\* a skipped result that carries an error: not a success
C29_Witness ==
    /\ StrategyRan
    /\ lastCall.result.Skipped
    /\ lastCall.result.Error # NoError
    /\ ~lastCall.result.Success
    /\ lastCall.result.Action = "skipped"

\* ImportState was given a state document it could read and decode
ImportReadable == lastCall.file.kind = "json"

\* C30 as stated: when ImportState returns an error the ledger in memory is
\* the one before the call; when it returns none the ledger holds exactly
\* the entries of the imported file
C30_ErrorLeavesLedger ==
    lastCall.op = "ImportState" =>
        IF lastCall.err # NoError
        THEN ledger = lastCall.before
        ELSE ledger = loadState(lastCall.file).repos

\* C30, amended: when ImportState returns an error because the import file
\* is unreadable, is not valid JSON or lacks processed_repos, the ledger in
\* memory is the one before the call; when the file is good the ledger holds
\* exactly its entries, whether the write of the state file succeeds (no
\* error, and the state file holds them too) or fails (the write error is
\* returned)
C30_LedgerFollowsImportFile ==
    lastCall.op = "ImportState" =>
        /\ lastCall.err = NoError => ImportReadable
        /\ IF ImportReadable
           THEN /\ ledger = loadState(lastCall.file).repos
                /\ lastCall.err = NoError => LoadedRepos(disk) = ledger
           ELSE /\ ledger = lastCall.before
                /\ lastCall.err # NoError

\* a document with a value of the wrong type was refused and the entry held
\* before the call is still there
C30_Witness ==
    /\ lastCall.op = "ImportState"
    /\ lastCall.file.kind = "badtype"
    /\ lastCall.err # NoError
    /\ lastCall.before # EmptyMap
    /\ ledger = lastCall.before
    /\ loadState(lastCall.file).repos # ledger

====
